---------------------------- MODULE Spec2Model ----------------------------
(***************************************************************************)
(* A model of dhcpcd's ARP handler (src/src/arp.c): the per-interface ARP  *)
(* state (struct iarp_state), the per-address ARP states (struct           *)
(* arp_state), the probe / announce timers they schedule on the event      *)
(* loop, and the decoding and conflict dispatch of inbound ARP frames.     *)
(*                                                                         *)
(* Every function of arp.c is an operator of the same name that maps a     *)
(* machine state (a record of all the variables) to the machine state the  *)
(* function leaves, so that a function called from another, or from an     *)
(* owner's callback, composes as it does in C.  The fields log and st of   *)
(* the machine state are observations (what the last operation did, and    *)
(* the sends and callbacks of each probe / announce run); the code does    *)
(* not read them; budget is a bound of the model: the number of            *)
(* operations a behaviour of Spec, SpecOps or SpecFreeBut still has.       *)
(***************************************************************************)
EXTENDS Integers, Sequences, FiniteSets, TLC

VARIABLES
    ifdata,     \* ifp->if_data[IF_DATA_ARP] of each interface: NULL or an iarp_state
    heap,       \* the arp_state objects: FREED or a struct arp_state
    timeouts,   \* the event loop's pending timeouts: {[callback, arg, tv]}
    events,     \* the descriptors the event loop watches for reading (-> arp_read)
    fds,        \* the descriptors the transport has open
    log,        \* observation: what the last operation did, in order
    st,         \* observation: the sends and callbacks of each state's current runs
    fault,      \* "none", or how the process died
    budget      \* bound: the operations still to run where the specification counts them

vars == <<ifdata, heap, timeouts, events, fds, log, st, fault, budget>>

-----------------------------------------------------------------------------
(* Bounds of the model *)

\* the number of arp_state objects of the heap
MaxSess == 3
\* the number of arp_states allocated at a time in Spec
MaxLive == 2
\* the number of arp_states allocated at a time in SpecTimer
MaxTimed == 1
\* the header lengths 0..MaxHdrLen (and 255) of the frames of SpecDecode
MaxHdrLen == 25
\* addresses are 0.0.0.0 (INADDR_ANY) and 0.0.0.1 .. 0.0.0.MaxAddr
MaxAddr == 2
\* the most frames one readiness notification delivers
MaxBatch == 2
\* the most reads of one readiness notification in SpecBatch
MaxReads == 3
\* the number of operations of a behaviour of Spec (the owner's setting of callbacks
\* and the returns to the event loop are not counted)
MaxOps == 6

-----------------------------------------------------------------------------
(* Program constants *)

\* __CTASSERT(sizeof(struct arphdr) == 8)
ARPHDR_LEN == 8
HWADDR_LEN == 20
\* sizeof(uint32_t), the size of in_addr_t
INADDR_LEN == 4
ARP_LEN == ARPHDR_LEN + (2 * INADDR_LEN) + (2 * HWADDR_LEN)
\* struct arp_msg { uint16_t op; unsigned char sha[HWADDR_LEN]; struct in_addr sip;
\* unsigned char tha[HWADDR_LEN]; struct in_addr tip; }: the offsets of its fields
\* (sip is aligned to 4 bytes) and its size
ARM_SHA == 2
ARM_SIP == 24
ARM_THA == 28
ARM_TIP == 48
ARM_LEN == 52
PROBE_NUM == 3
PROBE_MIN == 1
PROBE_MAX == 2
ANNOUNCE_NUM == 2
ANNOUNCE_WAIT == 2
NSEC_PER_SEC == 1000000000
\* htons(ETHERTYPE_IP), htons(ARPOP_REQUEST), htons(ARPOP_REPLY) as bytes on the wire
ETHERTYPE_IP == <<8, 0>>
ARPOP_REQUEST == <<0, 1>>
ARPOP_REPLY == <<0, 2>>

\* a null arp_state pointer
NULL == 0
\* a pointer that is no arp_state's and not null: what the allocator has written
\* where a freed arp_state had its tqe_next
WILD == 0 - 2
\* a null struct in_addr pointer (arp_new's addr argument)
NOADDR == <<>>
\* the closed descriptor
NOFD == 0 - 1

-----------------------------------------------------------------------------
(* The interface registry (ifp->ctx->ifaces): name, family, hardware address *)

IfNames == {"eth0", "eth1"}

Interface(name) ==
    IF name = "eth0"
    THEN [name |-> "eth0", family |-> <<0, 1>>, hwlen |-> 6,
          hwaddr |-> <<2, 0, 0, 0, 0, 1>>, bpf_fd |-> 3]
    ELSE [name |-> "eth1", family |-> <<0, 1>>, hwlen |-> 6,
          hwaddr |-> <<2, 0, 0, 0, 0, 2>>, bpf_fd |-> 4]

\* a hardware address that is no local interface's
ForeignHw == <<2, 0, 0, 0, 0, 9>>

\* in_addr values, 4 bytes in network order
Addr(a) == <<0, 0, 0, a>>
INADDR_ANY == Addr(0)
Addrs == {Addr(a) : a \in 0..MaxAddr}

Ptrs == 1..MaxSess

-----------------------------------------------------------------------------
(* Bytes *)

Min(a, b) == IF a < b THEN a ELSE b

Zeros(n) == [i \in 1..n |-> 0]

\* the n bytes of data from offset off (0-based); beyond the end, the byte junk
Bytes(data, off, n, junk) ==
    [i \in 1..n |-> IF off + i <= Len(data) THEN data[off + i] ELSE junk]

(***************************************************************************)
(* arp_request's buffer: CHECK appends l <= sizeof(arp_buffer) - len bytes *)
(* or fails (goto eexit): the buffer is not ok once a CHECK has failed.    *)
(***************************************************************************)
CHECK(buf, b) ==
    IF ~buf.ok THEN buf
    ELSE IF Len(buf.data) + Len(b) > ARP_LEN THEN [ok |-> FALSE, data |-> buf.data]
    ELSE [ok |-> TRUE, data |-> buf.data \o b]

\* the frame arp_request assembles; not ok: ENOBUFS
arp_buffer(ifp, sip, tip) ==
    LET ifn == Interface(ifp)
        ar == ifn.family \o ETHERTYPE_IP \o <<ifn.hwlen, INADDR_LEN>> \o ARPOP_REQUEST
    IN  CHECK(CHECK(CHECK(CHECK(CHECK([ok |-> TRUE, data |-> <<>>], ar), ifn.hwaddr), sip),
                    Zeros(ifn.hwlen)), tip)

-----------------------------------------------------------------------------
(* The machine state *)

\* ifp->if_data[IF_DATA_ARP] == NULL: no iarp_state is allocated
NOSTATE == [alloc |-> FALSE, fd |-> NOFD, arp_states |-> <<>>]

\* a freed arp_state whose memory has been reused or scrubbed
FREED == [live |-> FALSE, iface |-> "eth0", addr |-> INADDR_ANY, probes |-> 0,
          claims |-> 0, cbs |-> {}, next |-> NULL]

\* the callbacks an owner can set on an arp_state
Callbacks == {"conflicted", "probed", "announced", "free"}

(***************************************************************************)
(* Observation of a state's probe run and announce run.  probing is "no"   *)
(* until arp_probe starts a run and after arp_cancel; a run is "clean"     *)
(* when no timeout of an earlier probe run of the state was pending as it  *)
(* started, "dirty" otherwise.  psends counts the run's arp_request calls, *)
(* pfired the calls of probed_cb.  Likewise for announcing.                *)
(***************************************************************************)
NoRun == [probing |-> "no", psends |-> 0, pfired |-> 0,
          announcing |-> "no", asends |-> 0, afired |-> 0]

Pending(m, astate, callbacks) ==
    \E t \in m.timeouts : t.arg = astate /\ t.callback \in callbacks

NoLog == [op |-> <<"init">>, ret |-> NULL, evs |-> <<>>]

M == [ifdata |-> ifdata, heap |-> heap, timeouts |-> timeouts, events |-> events,
      fds |-> fds, log |-> log, st |-> st, fault |-> fault]

Emit(m, e) == [m EXCEPT !.log.evs = Append(@, e)]

Return(m, v) == [m EXCEPT !.log.ret = v]

\* the process dies (a null or dangling pointer is used)
Fault(m, how) == [m EXCEPT !.fault = IF @ = "none" THEN how ELSE @]

ARP_STATE(m, ifp) == m.ifdata[ifp]

\* the live arp_states of an interface, in list order
arp_states(m, ifp) ==
    m.ifdata[ifp].arp_states

TAILQ_FIRST(list) == IF list = <<>> THEN NULL ELSE list[1]

(***************************************************************************)
(* TAILQ_NEXT(astate, next): of a listed state, its successor in the list. *)
(* Of a freed one, what its memory holds where tqe_next was (uaf): the     *)
(* successor it had when it was freed ("benign": the allocator has left    *)
(* the memory alone), a null pointer ("null") or a pointer that is neither *)
(* null nor an arp_state's ("wild"): the allocator keeps the link of its   *)
(* free list in the first bytes of a freed object, where tqe_next lies.    *)
(***************************************************************************)
TAILQ_NEXT(m, astate, uaf) ==
    LET list == arp_states(m, m.heap[astate].iface)
    IN  IF m.heap[astate].live /\ \E i \in 1..Len(list) : list[i] = astate
        THEN LET i == CHOOSE j \in 1..Len(list) : list[j] = astate
             IN  IF i < Len(list) THEN list[i + 1] ELSE NULL
        ELSE IF uaf = "benign" THEN m.heap[astate].next
        ELSE IF uaf = "null" THEN NULL
        ELSE WILD

TAILQ_REMOVE(list, astate) == SelectSeq(list, LAMBDA q : q # astate)

-----------------------------------------------------------------------------
(* The event loop and the transport, as arp.c calls them *)

\* eloop_timeout_add_tv / eloop_timeout_add_sec: one timeout per (callback, arg)
eloop_timeout_add(m, tv, callback, arg) ==
    [m EXCEPT !.timeouts =
        {t \in @ : ~(t.callback = callback /\ t.arg = arg)}
        \cup {[callback |-> callback, arg |-> arg, tv |-> tv]}]

\* eloop_timeout_delete(eloop, NULL, arg): every timeout of arg
eloop_timeout_delete(m, arg) ==
    [m EXCEPT !.timeouts = {t \in @ : t.arg # arg}]

eloop_event_add(m, fd) == [m EXCEPT !.events = @ \cup {fd}]

eloop_event_delete(m, fd) == [m EXCEPT !.events = @ \ {fd}]

bpf_close(m, fd) == Emit([m EXCEPT !.fds = @ \ {fd}], [ev |-> "bpf_close", fd |-> fd])

\* bpf_arp(ifp, fd) installs the filter for the addresses of ifp's arp_states
bpf_arp(m, ifp, fd) ==
    LET list == arp_states(m, ifp)
    IN  Emit(m, [ev |-> "bpf_arp", ifp |-> ifp, fd |-> fd,
                 addrs |-> {m.heap[list[i]].addr : i \in 1..Len(list)}])

\* bpf_send: fails on a closed descriptor, or when the environment says so
bpf_send(m, ifp, fd, frame, env) ==
    Emit(m, [ev |-> "send", ifp |-> ifp, fd |-> fd, frame |-> frame,
             ok |-> (fd \in m.fds /\ env.send_ok)])

-----------------------------------------------------------------------------
(* arp_request: lines 66-107 *)

arp_request(m, ifp, sip, tip, env) ==
    LET buf == arp_buffer(ifp, sip, tip)
        state == ARP_STATE(m, ifp)
    IN  IF ~buf.ok THEN Emit(m, [ev |-> "ENOBUFS", ifp |-> ifp])
        ELSE IF state = NOSTATE THEN Fault(m, "null_deref")
        ELSE bpf_send(m, ifp, state.fd, buf.data, env)

-----------------------------------------------------------------------------
(* arp_close, arp_open: lines 176-186, 216-231 *)

\* a variant that leaves the descriptor with the event loop (used to validate C8's
\* formula)
arp_close_watched(m, ifp) ==
    LET state == ARP_STATE(m, ifp)
    IN  IF state # NOSTATE /\ state.fd # NOFD
        THEN [bpf_close(m, state.fd) EXCEPT !.ifdata[ifp].fd = NOFD]
        ELSE m

arp_close(m, ifp) ==
    LET state == ARP_STATE(m, ifp)
    IN  IF state # NOSTATE /\ state.fd # NOFD
        THEN [bpf_close(eloop_event_delete(m, state.fd), state.fd)
                  EXCEPT !.ifdata[ifp].fd = NOFD]
        ELSE m

\* the descriptor arp_open returns, or -1
arp_open(m, ifp, env) ==
    LET state == ARP_STATE(m, ifp)
    IN  IF state = NOSTATE THEN Return(Fault(m, "null_deref"), NOFD)
        ELSE IF state.fd = NOFD
        THEN IF ~env.open_ok THEN Return(m, NOFD)
             ELSE LET fd == Interface(ifp).bpf_fd
                  IN  Return(eloop_event_add(
                          [m EXCEPT !.fds = @ \cup {fd}, !.ifdata[ifp].fd = fd], fd), fd)
        ELSE Return(m, state.fd)

-----------------------------------------------------------------------------
(* arp_find, arp_new, arp_cancel, arp_free: lines 365-448 *)

\* a variant that looks at the head of the list only (used to validate C1's formula)
arp_find_head(m, ifp, addr) ==
    LET list == arp_states(m, ifp)
    IN  IF ARP_STATE(m, ifp) = NOSTATE \/ list = <<>> THEN NULL
        ELSE IF m.heap[list[1]].addr = addr /\ m.heap[list[1]].iface = ifp THEN list[1]
        ELSE NULL

arp_find(m, ifp, addr) ==
    LET list == arp_states(m, ifp)
        hits == {i \in 1..Len(list) :
                    m.heap[list[i]].addr = addr /\ m.heap[list[i]].iface = ifp}
    IN  IF ARP_STATE(m, ifp) = NOSTATE \/ hits = {} THEN NULL
        ELSE list[CHOOSE i \in hits : \A j \in hits : i <= j]

\* calloc: the lowest free slot
calloc(m) == CHOOSE p \in Ptrs : ~m.heap[p].live /\ \A q \in Ptrs : ~m.heap[q].live => p <= q

arp_new(m, ifp, addr, env) ==
    LET m1 == IF ARP_STATE(m, ifp) = NOSTATE /\ env.malloc_ok
              THEN [m EXCEPT !.ifdata[ifp] = [alloc |-> TRUE, fd |-> NOFD, arp_states |-> <<>>]]
              ELSE m
        found == IF ARP_STATE(m, ifp) # NOSTATE /\ addr # NOADDR
                 THEN arp_find(m, ifp, addr) ELSE NULL
    IN  IF ARP_STATE(m1, ifp) = NOSTATE THEN Return(m1, NULL)
        ELSE IF found # NULL THEN Return(m1, found)
        ELSE IF ~env.calloc_ok THEN Return(m1, NULL)
        ELSE LET astate == calloc(m1)
                 m2 == [m1 EXCEPT
                          !.heap[astate] = [live |-> TRUE, iface |-> ifp,
                              addr |-> IF addr # NOADDR THEN addr ELSE INADDR_ANY,
                              probes |-> 0, claims |-> 0, cbs |-> {}, next |-> NULL],
                          !.st[astate] = NoRun,
                          !.ifdata[ifp].arp_states = Append(@, astate)]
             IN  Return(bpf_arp(m2, ifp, m2.ifdata[ifp].fd), astate)

\* a variant that deletes the timeouts of arp_probe1 only (used to validate C10's
\* formula)
arp_cancel_probe1(m, astate) ==
    [m EXCEPT !.timeouts = {t \in @ : ~(t.arg = astate /\ t.callback = "arp_probe1")},
              !.st[astate] = NoRun]

arp_cancel(m, astate) ==
    [eloop_timeout_delete(m, astate) EXCEPT !.st[astate] = NoRun]

\* a variant that leaves the transport open when the last arp_state goes (used to
\* validate C11's formula)
arp_free_open(m, astate) ==
    IF astate = NULL THEN m
    ELSE IF ~m.heap[astate].live THEN Fault(m, "double_free")
    ELSE
    LET ifp == m.heap[astate].iface
        m1 == eloop_timeout_delete(Emit(m, [ev |-> "arp_free", p |-> astate]), astate)
        m2 == [m1 EXCEPT !.ifdata[ifp].arp_states = TAILQ_REMOVE(@, astate)]
        m3 == IF "free" \in m2.heap[astate].cbs
              THEN Emit(m2, [ev |-> "free_cb", p |-> astate]) ELSE m2
        m4 == [m3 EXCEPT !.heap[astate].live = FALSE, !.st[astate] = NoRun]
    IN  IF TAILQ_FIRST(m4.ifdata[ifp].arp_states) = NULL
        THEN [m4 EXCEPT !.ifdata[ifp] = NOSTATE]
        ELSE bpf_arp(m4, ifp, m4.ifdata[ifp].fd)

arp_free(m, astate) ==
    IF astate = NULL THEN m
    ELSE IF ~m.heap[astate].live THEN Fault(m, "double_free")
    ELSE
    LET ifp == m.heap[astate].iface
        m1 == eloop_timeout_delete(Emit(m, [ev |-> "arp_free", p |-> astate]), astate)
        n == TAILQ_NEXT(m1, astate, "benign")
        m2 == [m1 EXCEPT !.ifdata[ifp].arp_states = TAILQ_REMOVE(@, astate)]
        m3 == IF "free" \in m2.heap[astate].cbs
              THEN Emit(m2, [ev |-> "free_cb", p |-> astate]) ELSE m2
        m4 == [m3 EXCEPT !.heap[astate].live = FALSE, !.heap[astate].next = n,
                         !.st[astate] = NoRun]
    IN  IF TAILQ_FIRST(m4.ifdata[ifp].arp_states) = NULL
        THEN [arp_close(m4, ifp) EXCEPT !.ifdata[ifp] = NOSTATE]
        ELSE bpf_arp(m4, ifp, m4.ifdata[ifp].fd)

-----------------------------------------------------------------------------
(* The owner's callbacks.  What a callback does is the owner's choice: env *)
(* gives, for each arp_state, what its callbacks do when they are called.  *)

\* a callback that frees, probes or announces acts on a state that is still allocated
owner_free(m, on) == IF m.heap[on].live THEN arp_free(m, on) ELSE m

conflicted_cb(m, astate, arm, env) ==
    LET act == env.conflicted[astate]
        m1 == Emit(m, [ev |-> "conflicted_cb", p |-> astate, live |-> m.heap[astate].live,
                       addr |-> m.heap[astate].addr, sip |-> arm.sip, tip |-> arm.tip])
    IN  IF act.do = "free" THEN owner_free(m1, act.on)
        ELSE IF act.do = "cancel" THEN arp_cancel(m1, astate)
        ELSE m1

-----------------------------------------------------------------------------
(* arp_packet: lines 109-174 *)

\* struct arphdr: ar_hrd, ar_pro (2 bytes each), ar_hln, ar_pln (1 each), ar_op (2)
arphdr(data) ==
    [ar_hrd |-> SubSeq(data, 1, 2), ar_pro |-> SubSeq(data, 3, 4),
     ar_hln |-> data[5], ar_pln |-> data[6], ar_op |-> SubSeq(data, 7, 8)]

(***************************************************************************)
(* The memcpy's of lines 160-163, in order: each copies n bytes from the   *)
(* offset from of the frame to the offset off of arm.                      *)
(***************************************************************************)
copies(ar) ==
    LET hw_s == ARPHDR_LEN
        hw_t == hw_s + ar.ar_hln + ar.ar_pln
    IN  <<[off |-> ARM_SHA, from |-> hw_s, n |-> ar.ar_hln],
          [off |-> ARM_SIP, from |-> hw_s + ar.ar_hln, n |-> ar.ar_pln],
          [off |-> ARM_THA, from |-> hw_t, n |-> ar.ar_hln],
          [off |-> ARM_TIP, from |-> hw_t + ar.ar_hln, n |-> ar.ar_pln]>>

(***************************************************************************)
(* The i-th byte of arm after the first k of the copies cps.  A memcpy     *)
(* does not stop at the end of the field it starts in: what is beyond the  *)
(* field goes to the bytes of arm that follow it (and what is beyond arm   *)
(* goes to the stack outside it: arm_end).  arm is not initialised: stack  *)
(* is what its bytes hold before, and what no copy writes stays.           *)
(* arp_packet copies only bytes that line 145 has found in the frame.      *)
(***************************************************************************)
RECURSIVE arm_byte(_, _, _, _, _)
arm_byte(stack, data, cps, k, i) ==
    IF k = 0 THEN stack[i]
    ELSE IF /\ cps[k].off < i
            /\ i <= cps[k].off + cps[k].n
            /\ cps[k].from + (i - cps[k].off) <= Len(data)
    THEN data[cps[k].from + (i - cps[k].off)]
    ELSE arm_byte(stack, data, cps, k - 1, i)

\* the struct arp_msg after lines 160-163
arp_msg(data, ar, stack) ==
    LET cps == copies(ar)
    IN  [sha |-> [j \in 1..HWADDR_LEN |-> arm_byte(stack, data, cps, 4, ARM_SHA + j)],
         sip |-> [j \in 1..INADDR_LEN |-> arm_byte(stack, data, cps, 4, ARM_SIP + j)],
         tha |-> [j \in 1..HWADDR_LEN |-> arm_byte(stack, data, cps, 4, ARM_THA + j)],
         tip |-> [j \in 1..INADDR_LEN |-> arm_byte(stack, data, cps, 4, ARM_TIP + j)]]

\* the end, as an offset from &arm, of the bytes that lines 160-163 write
arm_end(ar) ==
    LET ends == {ARM_SHA + ar.ar_hln, ARM_SIP + ar.ar_pln, ARM_THA + ar.ar_hln,
                 ARM_TIP + ar.ar_pln}
    IN  CHOOSE e \in ends : \A f \in ends : f <= e

\* a variant that compares with the first interface only (used to validate C5's
\* formula)
from_self_first(data, ar, junk) ==
    /\ ar.ar_hln = Interface("eth0").hwlen
    /\ Bytes(data, ARPHDR_LEN, Interface("eth0").hwlen, junk) = Interface("eth0").hwaddr

\* lines 148-152: is the sender hardware address that of a local interface?
from_self(data, ar, junk) ==
    \E n \in IfNames :
        /\ ar.ar_hln = Interface(n).hwlen
        /\ Bytes(data, ARPHDR_LEN, Interface(n).hwlen, junk) = Interface(n).hwaddr

\* the end of the bytes of the frame that lines 148-152 read
self_reads(ar) ==
    IF \E n \in IfNames : ar.ar_hln = Interface(n).hwlen
    THEN ARPHDR_LEN + ar.ar_hln ELSE ARPHDR_LEN

\* a variant without the test of the addresses (used to validate C6's formula)
conflicts_any(arm, a) == TRUE

\* a variant that tests the sender address only (used to validate C7's formula)
conflicts_sender(arm, a) == arm.sip = a.addr

\* lines 168-170: the message is about the address of the arp_state a
conflicts(arm, a) == ~(arm.sip # a.addr /\ arm.tip # a.addr)

(***************************************************************************)
(* A variant of the loop below that reads the next arp_state after the     *)
(* body has run, as TAILQ_FOREACH does (used to validate C9's formula).    *)
(***************************************************************************)
RECURSIVE run_conflicts_foreach(_, _, _, _)
run_conflicts_foreach(m, arm, astate, env) ==
    IF astate = NULL \/ m.fault # "none" THEN m
    ELSE IF astate = WILD THEN Fault(m, "use_after_free")
    ELSE
    LET a == m.heap[astate]
        m1 == IF ~conflicts(arm, a) THEN m
              ELSE IF "conflicted" \notin a.cbs THEN m
              ELSE conflicted_cb(m, astate, arm, env)
    IN  IF m1.fault # "none" THEN m1
        ELSE IF ~m1.heap[astate].live /\ env.uaf = "crash"
        THEN Fault(Emit(m1, [ev |-> "uaf", p |-> astate]), "use_after_free")
        ELSE run_conflicts_foreach(
                 IF m1.heap[astate].live THEN m1 ELSE Emit(m1, [ev |-> "uaf", p |-> astate]),
                 arm, TAILQ_NEXT(m1, astate, env.uaf), env)

(***************************************************************************)
(* Lines 167-173, TAILQ_FOREACH_SAFE: astaten is read from astate before   *)
(* the body runs.  A state freed by an earlier callback is read after its  *)
(* free (env.uaf): the process dies at the read ("crash"), or the read     *)
(* gives what the memory holds: the address and the callbacks as they were *)
(* (the body runs on the freed state, and calls its callback) and, for     *)
(* tqe_next, what TAILQ_NEXT says.  With a wild astaten the process dies   *)
(* when the loop reads the next arp_state through it.                      *)
(***************************************************************************)
RECURSIVE run_conflicts(_, _, _, _)
run_conflicts(m, arm, astate, env) ==
    IF astate = NULL \/ m.fault # "none" THEN m
    ELSE IF astate = WILD THEN Fault(m, "use_after_free")
    ELSE IF ~m.heap[astate].live /\ env.uaf = "crash"
    THEN Fault(Emit(m, [ev |-> "uaf", p |-> astate]), "use_after_free")
    ELSE
    LET m0 == IF m.heap[astate].live THEN m ELSE Emit(m, [ev |-> "uaf", p |-> astate])
        astaten == TAILQ_NEXT(m0, astate, env.uaf)
        a == m0.heap[astate]
        m1 == IF ~conflicts(arm, a) THEN m0
              ELSE IF "conflicted" \notin a.cbs THEN m0
              ELSE conflicted_cb(m0, astate, arm, env)
    IN  run_conflicts(m1, arm, astaten, env)

\* a variant that leaves the target fields out (used to validate C4's formula)
frame_end_sender(ar) == ARPHDR_LEN + ar.ar_hln + ar.ar_pln

\* line 145: (hw_t + ar.ar_hln + ar.ar_pln) - data
frame_end(ar) == ARPHDR_LEN + ar.ar_hln + ar.ar_pln + ar.ar_hln + ar.ar_pln

\* the end of the bytes of the frame that the memcpy's of lines 160-163 read
msg_reads(ar) ==
    LET hw_s == ARPHDR_LEN
        hw_t == hw_s + ar.ar_hln + ar.ar_pln
        ends == {hw_s + ar.ar_hln, hw_s + ar.ar_hln + ar.ar_pln,
                 hw_t + ar.ar_hln, hw_t + ar.ar_hln + ar.ar_pln}
    IN  CHOOSE e \in ends : \A f \in ends : f <= e

(***************************************************************************)
(* over: a copy of lines 160-163 writes beyond its field of arm.  When it  *)
(* writes beyond arm itself (env.smash), the process dies at the copy      *)
(* ("crash": a checked memcpy), or it dies when arp_packet returns, after  *)
(* the conflicts have run ("return": the stack protector, or a return      *)
(* address written over), or it goes on ("benign").                        *)
(***************************************************************************)
arp_packet(m, ifp, data, env) ==
    LET len == Len(data)
        ar == arphdr(data)
        need == frame_end(ar)
        arm == arp_msg(data, ar, env.stack)
        state == ARP_STATE(m, ifp)
        over == ar.ar_hln > HWADDR_LEN \/ ar.ar_pln > INADDR_LEN
        smashed == arm_end(ar) > ARM_LEN
    IN  IF len < ARPHDR_LEN
        THEN Emit(m, [ev |-> "packet", verdict |-> "short", data |-> data, rd |-> 0])
        ELSE IF need > len
        THEN Emit(m, [ev |-> "packet", verdict |-> "truncated", data |-> data,
                      rd |-> ARPHDR_LEN])
        ELSE IF from_self(data, ar, env.junk)
        THEN Emit(m, [ev |-> "packet", verdict |-> "self", data |-> data,
                      rd |-> self_reads(ar)])
        ELSE IF smashed /\ env.smash = "crash"
        THEN Fault(Emit(m, [ev |-> "packet", verdict |-> "overflow", data |-> data,
                            rd |-> msg_reads(ar)]), "stack_smash")
        ELSE IF state = NOSTATE THEN Fault(m, "null_deref")
        ELSE LET m1 == run_conflicts(
                           Emit(m, [ev |-> "packet",
                                    verdict |-> IF over THEN "overflow" ELSE "accept",
                                    data |-> data, rd |-> msg_reads(ar), sip |-> arm.sip,
                                    tip |-> arm.tip,
                                    list |-> state.arp_states]),
                           arm, TAILQ_FIRST(state.arp_states), env)
             IN  IF smashed /\ env.smash = "return" THEN Fault(m1, "stack_smash") ELSE m1

-----------------------------------------------------------------------------
(* arp_read: lines 188-214.  batch is what bpf_read returns in turn: a     *)
(* frame, or "error"; the last one of the batch comes with BPF_EOF.        *)

(***************************************************************************)
(* arm is an automatic variable of arp_packet: as arp_packet is called for *)
(* a later read of the batch, its bytes hold what the call before left in  *)
(* them, or what the callbacks and the calls in between have written       *)
(* there.  arm_left: the bytes of arm as arp_packet returns.  env.stack is *)
(* what arm holds before the read at hand; env.stacks says for each later  *)
(* read, and for arm.sip and arm.tip each, whether the field is as the     *)
(* read before left it, or gives the bytes written over it since.          *)
(***************************************************************************)
arm_left(data, env) ==
    IF Len(data) < ARPHDR_LEN THEN env.stack
    ELSE IF frame_end(arphdr(data)) > Len(data) THEN env.stack
    ELSE IF from_self(data, arphdr(data), env.junk) THEN env.stack
    ELSE [i \in 1..ARM_LEN |-> arm_byte(env.stack, data, copies(arphdr(data)), 4, i)]

\* the environment of the read after the one that returned item
next_read(env, item) ==
    LET left == IF item.ok THEN arm_left(item.data, env) ELSE env.stack
    IN  IF env.stacks = <<>> THEN [env EXCEPT !.stack = left]
        ELSE LET c == Head(env.stacks)
             IN  [env EXCEPT
                    !.stack = [i \in 1..ARM_LEN |->
                        IF ARM_SIP < i /\ i <= ARM_SIP + INADDR_LEN /\ ~c.sip.left
                        THEN c.sip.bytes[i - ARM_SIP]
                        ELSE IF ARM_TIP < i /\ i <= ARM_TIP + INADDR_LEN /\ ~c.tip.left
                        THEN c.tip.bytes[i - ARM_TIP]
                        ELSE left[i]],
                    !.stacks = Tail(@)]

\* a variant that closes the transport on a failed read and goes on with the batch
\* (used to validate C16's formula)
RECURSIVE arp_read_loop_on(_, _, _, _)
arp_read_loop_on(m, ifp, batch, env) ==
    IF batch = <<>> \/ m.fault # "none" THEN m
    ELSE
    LET state == ARP_STATE(m, ifp)
        m1 == Emit(m, [ev |-> "bpf_read", ifp |-> ifp, fd |-> state.fd,
                       open |-> state.fd \in m.fds])
    IN  IF ~Head(batch).ok
        THEN arp_read_loop_on(arp_close(m1, ifp), ifp, Tail(batch),
                              next_read(env, Head(batch)))
        ELSE LET m2 == arp_packet(m1, ifp, Head(batch).data, env)
                 state2 == ARP_STATE(m2, ifp)
             IN  IF state2 = NOSTATE THEN m2
                 ELSE arp_read_loop_on(m2, ifp, Tail(batch), next_read(env, Head(batch)))

\* a variant without the test of lines 211-212 (used to validate C19's formula)
RECURSIVE arp_read_loop_all(_, _, _, _)
arp_read_loop_all(m, ifp, batch, env) ==
    IF batch = <<>> \/ m.fault # "none" THEN m
    ELSE
    LET state == ARP_STATE(m, ifp)
        m1 == Emit(m, [ev |-> "bpf_read", ifp |-> ifp, fd |-> state.fd,
                       open |-> state.fd \in m.fds])
    IN  IF ~Head(batch).ok
        THEN arp_close(m1, ifp)
        ELSE arp_read_loop_all(arp_packet(m1, ifp, Head(batch).data, env), ifp,
                               Tail(batch), next_read(env, Head(batch)))

RECURSIVE arp_read_loop(_, _, _, _)
arp_read_loop(m, ifp, batch, env) ==
    IF batch = <<>> \/ m.fault # "none" THEN m
    ELSE
    LET state == ARP_STATE(m, ifp)
        m1 == Emit(m, [ev |-> "bpf_read", ifp |-> ifp, fd |-> state.fd,
                       open |-> state.fd \in m.fds])
    IN  IF ~Head(batch).ok
        THEN arp_close(m1, ifp)
        ELSE LET m2 == arp_packet(m1, ifp, Head(batch).data, env)
                 state2 == ARP_STATE(m2, ifp)
             IN  IF state2 = NOSTATE \/ state2.fd = NOFD THEN m2
                 ELSE arp_read_loop(m2, ifp, Tail(batch), next_read(env, Head(batch)))

arp_read(m, ifp, batch, env) ==
    IF ARP_STATE(m, ifp) = NOSTATE THEN Fault(m, "null_deref")
    ELSE arp_read_loop(m, ifp, batch, env)

-----------------------------------------------------------------------------
(* Announcing: lines 289-345 (the build without KERNEL_RFC5227) *)

announced_cb(m, astate, env) ==
    LET m1 == Emit([m EXCEPT !.st[astate].afired = Min(@ + 1, 2)],
                   [ev |-> "announced_cb", p |-> astate])
    IN  IF env.announced[astate] = "free" THEN owner_free(m1, astate) ELSE m1

arp_announced(m, astate, env) ==
    IF ~m.heap[astate].live THEN Fault(m, "use_after_free")
    ELSE IF "announced" \in m.heap[astate].cbs THEN announced_cb(m, astate, env)
    ELSE m

arp_announce1(m, astate, env) ==
    IF ~m.heap[astate].live THEN Fault(m, "use_after_free")
    ELSE
    LET ifp == m.heap[astate].iface
        addr == m.heap[astate].addr
        claims == m.heap[astate].claims + 1
        m1 == Emit([m EXCEPT !.heap[astate].claims = claims,
                             !.st[astate].asends = Min(@ + 1, ANNOUNCE_NUM + 1)],
                   [ev |-> "arp_announce1", p |-> astate, addr |-> addr])
        m2 == arp_request(m1, ifp, addr, addr, env)
    IN  eloop_timeout_add(m2, [sec |-> ANNOUNCE_WAIT, nsec |-> 0],
            IF claims < ANNOUNCE_NUM THEN "arp_announce1" ELSE "arp_announced", astate)

arp_announce(m, astate, env) ==
    LET m1 == arp_open(m, m.heap[astate].iface, env)
    IN  IF m1.log.ret = NOFD THEN m1
        ELSE arp_announce1(
                 [m1 EXCEPT !.heap[astate].claims = 0,
                            !.st[astate].announcing =
                                IF Pending(m, astate, {"arp_announce1", "arp_announced"})
                                THEN "dirty" ELSE "clean",
                            !.st[astate].asends = 0, !.st[astate].afired = 0],
                 astate, env)

-----------------------------------------------------------------------------
(* Probing: lines 233-284 *)

probed_cb(m, astate, env) ==
    LET m1 == Emit([m EXCEPT !.st[astate].pfired = Min(@ + 1, 2)],
                   [ev |-> "probed_cb", p |-> astate])
    IN  IF env.probed[astate] = "free" THEN owner_free(m1, astate)
        ELSE IF env.probed[astate] = "announce" THEN arp_announce(m1, astate, env)
        ELSE m1

\* line 238 calls probed_cb without testing it
arp_probed(m, astate, env) ==
    IF ~m.heap[astate].live THEN Fault(m, "use_after_free")
    ELSE IF "probed" \notin m.heap[astate].cbs THEN Fault(m, "null_call")
    ELSE probed_cb(m, astate, env)

timespecnorm(tv) ==
    [sec |-> tv.sec + (tv.nsec \div NSEC_PER_SEC), nsec |-> tv.nsec % NSEC_PER_SEC]

\* what arc4random_uniform((PROBE_MAX - PROBE_MIN) * NSEC_PER_SEC) returns: the ends
\* of its range
Jitters == {0, (PROBE_MAX - PROBE_MIN) * NSEC_PER_SEC - 1}

\* a variant that gives the run up when the send fails (used to validate C15's
\* formula)
arp_probe1_strict(m, astate, env) ==
    IF ~m.heap[astate].live THEN Fault(m, "use_after_free")
    ELSE
    LET ifp == m.heap[astate].iface
        addr == m.heap[astate].addr
        probes == m.heap[astate].probes + 1
        m1 == [m EXCEPT !.heap[astate].probes = probes]
        m2 == IF ~env.send_ok THEN m1
              ELSE IF probes < PROBE_NUM
              THEN eloop_timeout_add(m1,
                       timespecnorm([sec |-> PROBE_MIN, nsec |-> env.jitter]),
                       "arp_probe1", astate)
              ELSE eloop_timeout_add(m1, [sec |-> ANNOUNCE_WAIT, nsec |-> 0],
                       "arp_probed", astate)
        m3 == Emit([m2 EXCEPT !.st[astate].psends = Min(@ + 1, PROBE_NUM + 1)],
                   [ev |-> "arp_probe1", p |-> astate, addr |-> addr])
    IN  arp_request(m3, ifp, INADDR_ANY, addr, env)

arp_probe1(m, astate, env) ==
    IF ~m.heap[astate].live THEN Fault(m, "use_after_free")
    ELSE
    LET ifp == m.heap[astate].iface
        addr == m.heap[astate].addr
        probes == m.heap[astate].probes + 1
        m1 == [m EXCEPT !.heap[astate].probes = probes]
        m2 == IF probes < PROBE_NUM
              THEN eloop_timeout_add(m1,
                       timespecnorm([sec |-> PROBE_MIN, nsec |-> env.jitter]),
                       "arp_probe1", astate)
              ELSE eloop_timeout_add(m1, [sec |-> ANNOUNCE_WAIT, nsec |-> 0],
                       "arp_probed", astate)
        m3 == Emit([m2 EXCEPT !.st[astate].psends = Min(@ + 1, PROBE_NUM + 1)],
                   [ev |-> "arp_probe1", p |-> astate, addr |-> addr])
    IN  arp_request(m3, ifp, INADDR_ANY, addr, env)

arp_probe(m, astate, env) ==
    LET ifp == m.heap[astate].iface
        m1 == arp_open(m, ifp, env)
    IN  IF m1.log.ret = NOFD THEN m1
        ELSE arp_probe1(
                 [bpf_arp(m1, ifp, ARP_STATE(m1, ifp).fd)
                      EXCEPT !.heap[astate].probes = 0,
                             !.st[astate].probing =
                                 IF Pending(m, astate, {"arp_probe1", "arp_probed"})
                                 THEN "dirty" ELSE "clean",
                             !.st[astate].psends = 0, !.st[astate].pfired = 0],
                 astate, env)

-----------------------------------------------------------------------------
(* arp_free_but1, arp_free_but, arp_drop: lines 450-478 *)

\* a variant that stops at astate (used to validate C18's formula)
RECURSIVE free_but_loop_until(_, _, _, _)
free_but_loop_until(m, p, astate, env) ==
    IF p = NULL \/ m.fault # "none" \/ p = astate THEN m
    ELSE IF ~m.heap[p].live THEN Fault(Emit(m, [ev |-> "uaf", p |-> p]), "use_after_free")
    ELSE LET n == TAILQ_NEXT(m, p, env.uaf)
         IN  free_but_loop_until(arp_free(m, p), n, astate, env)

\* TAILQ_FOREACH_SAFE(p, &state->arp_states, next, n)
RECURSIVE free_but_loop(_, _, _, _)
free_but_loop(m, p, astate, env) ==
    IF p = NULL \/ m.fault # "none" THEN m
    ELSE IF ~m.heap[p].live THEN Fault(Emit(m, [ev |-> "uaf", p |-> p]), "use_after_free")
    ELSE LET n == TAILQ_NEXT(m, p, env.uaf)
         IN  free_but_loop(IF p # astate THEN arp_free(m, p) ELSE m, n, astate, env)

arp_free_but1(m, ifp, astate, env) ==
    IF ARP_STATE(m, ifp) # NOSTATE
    THEN free_but_loop(m, TAILQ_FIRST(ARP_STATE(m, ifp).arp_states), astate, env)
    ELSE m

arp_free_but(m, astate, env) == arp_free_but1(m, m.heap[astate].iface, astate, env)

arp_drop(m, ifp, env) == arp_close(arp_free_but1(m, ifp, NULL, env), ifp)

-----------------------------------------------------------------------------
(* The environment of one operation: what the owner's callbacks do, what   *)
(* the allocator, the transport and the random source return, and what an  *)
(* undefined access does.                                                  *)

\* what the bytes of arp_packet's arm hold before lines 160-163: its sip and tip
\* fields hold s and t
StackOf(s, t) ==
    [i \in 1..ARM_LEN |->
        IF ARM_SIP < i /\ i <= ARM_SIP + INADDR_LEN THEN s[i - ARM_SIP]
        ELSE IF ARM_TIP < i /\ i <= ARM_TIP + INADDR_LEN THEN t[i - ARM_TIP]
        ELSE 0]

ZeroStack == StackOf(INADDR_ANY, INADDR_ANY)

Env0 ==
    [conflicted |-> [p \in Ptrs |-> [do |-> "none", on |-> p]],
     probed |-> [p \in Ptrs |-> "none"],
     announced |-> [p \in Ptrs |-> "none"],
     open_ok |-> TRUE, send_ok |-> TRUE, malloc_ok |-> TRUE, calloc_ok |-> TRUE,
     jitter |-> 0, junk |-> 0, stack |-> ZeroStack, stacks |-> <<>>, uaf |-> "crash", smash |-> "crash"]

\* a conflicted callback does nothing, frees its own state or cancels its timers
SelfActs(p) == {[do |-> "none", on |-> p], [do |-> "free", on |-> p],
                [do |-> "cancel", on |-> p]}

\* a conflicted callback that returns at once
NoActs(p) == {[do |-> "none", on |-> p]}

-----------------------------------------------------------------------------
(* Frames *)

\* an ARP frame with the given header lengths and fields, cut to len bytes
MkFrame(hln, pln, op, sha, sip, tha, tip, len) ==
    LET all == <<0, 1>> \o ETHERTYPE_IP \o <<hln, pln>> \o op \o sha \o sip \o tha \o tip
    IN  SubSeq(all, 1, Min(len, Len(all)))

\* a well-formed Ethernet ARP frame
EtherFrame(op, sha, sip, tip) ==
    MkFrame(6, INADDR_LEN, op, sha, sip, Zeros(6), tip, ARP_LEN)

Got(data) == [ok |-> TRUE, data |-> data]

\* bpf_read returned -1
ReadError == [ok |-> FALSE, data |-> <<>>]

\* the sequences of 1..n elements of S
RECURSIVE SeqsUpTo(_, _)
SeqsUpTo(S, n) ==
    IF n = 0 THEN {<<>>}
    ELSE LET shorter == SeqsUpTo(S, n - 1)
         IN  shorter \cup {Append(q, x) : q \in shorter, x \in S}

Batches(S) == SeqsUpTo(S, MaxBatch) \ {<<>>}

-----------------------------------------------------------------------------
(* Operations: each is one call from the owner or from the event loop *)

Begin(op) == [M EXCEPT !.log = [op |-> op, ret |-> NULL, evs |-> <<>>]]

\* the memory of freed arp_states is not kept from one operation to the next
Scrub(m) == [m EXCEPT !.heap = [p \in Ptrs |-> IF m.heap[p].live THEN m.heap[p] ELSE FREED]]

\* the machine state m0 is the state the step leaves
Returned(m0) ==
    LET m == Scrub(m0)
    IN  /\ ifdata' = m.ifdata
        /\ heap' = m.heap
        /\ timeouts' = m.timeouts
        /\ events' = m.events
        /\ fds' = m.fds
        /\ log' = m.log
        /\ st' = m.st
        /\ fault' = m.fault

\* an operation of arp.c has run: one less to go
Done(m0) ==
    /\ Returned(m0)
    /\ budget' = IF budget > 0 THEN budget - 1 ELSE 0

\* the specification still follows operations
Budget == budget > 0

Live == {p \in Ptrs : heap[p].live}

\* arp_new(ifp, addr); calloc fails when max arp_states are allocated, or when the
\* environment says so
Create(ifp, addr, Oks, max) ==
    /\ fault = "none"
    /\ log = NoLog
    /\ \E malloc_ok \in Oks :
       \E calloc_ok \in (IF Cardinality(Live) >= max THEN {FALSE} ELSE Oks) :
          Done(arp_new(Begin(<<"arp_new", ifp, addr>>), ifp, addr,
                       [Env0 EXCEPT !.malloc_ok = malloc_ok, !.calloc_ok = calloc_ok]))

\* the owner sets the callbacks of the state arp_new returned, before it starts a run
SetCallbacks(p, cbs) ==
    /\ fault = "none"
    /\ log = NoLog
    /\ p \in Live
    /\ heap[p].cbs = {}
    /\ st[p] = NoRun
    /\ Returned([Begin(<<"set_callbacks", p>>) EXCEPT !.heap[p].cbs = cbs])
    /\ UNCHANGED budget

Probe(p, Opens, Sends, Jits) ==
    /\ fault = "none"
    /\ log = NoLog
    /\ p \in Live
    /\ \E open_ok \in Opens, send_ok \in Sends, jitter \in Jits :
          Done(arp_probe(Begin(<<"arp_probe", p>>), p,
                         [Env0 EXCEPT !.open_ok = open_ok, !.send_ok = send_ok,
                                      !.jitter = jitter]))

Announce(p, Opens, Sends) ==
    /\ fault = "none"
    /\ log = NoLog
    /\ p \in Live
    /\ \E open_ok \in Opens, send_ok \in Sends :
          Done(arp_announce(Begin(<<"arp_announce", p>>), p,
                            [Env0 EXCEPT !.open_ok = open_ok, !.send_ok = send_ok]))

\* arp_open(ifp): it reads the fd of the iarp_state without a test that there is one
Open(ifp, Opens) ==
    /\ fault = "none"
    /\ log = NoLog
    /\ \E open_ok \in Opens :
          Done(arp_open(Begin(<<"arp_open", ifp>>), ifp, [Env0 EXCEPT !.open_ok = open_ok]))

\* arp_close(ifp)
Close(ifp) ==
    /\ fault = "none"
    /\ log = NoLog
    /\ Done(arp_close(Begin(<<"arp_close", ifp>>), ifp))

Cancel(p) ==
    /\ fault = "none"
    /\ log = NoLog
    /\ p \in Live
    /\ Done(arp_cancel(Begin(<<"arp_cancel", p>>), p))

Free(p) ==
    /\ fault = "none"
    /\ log = NoLog
    /\ p \in Live
    /\ Done(arp_free(Begin(<<"arp_free", p>>), p))

FreeBut(p) ==
    /\ fault = "none"
    /\ log = NoLog
    /\ p \in Live
    /\ Done(arp_free_but(Begin(<<"arp_free_but", p>>), p, Env0))

Drop(ifp) ==
    /\ fault = "none"
    /\ log = NoLog
    /\ Done(arp_drop(Begin(<<"arp_drop", ifp>>), ifp, Env0))

\* what the environment of a timeout's callback can be; a probed_cb that calls
\* arp_announce opens the transport when it is closed and sends the first announce
FireEnvs(t, Opens, Sends, Jits) ==
    IF t.callback = "arp_probe1"
    THEN {[Env0 EXCEPT !.send_ok = s, !.jitter = j] : s \in Sends, j \in Jits}
    ELSE IF t.callback = "arp_probed"
    THEN {[Env0 EXCEPT !.probed[t.arg] = b] : b \in {"none", "free"}}
         \cup {[Env0 EXCEPT !.probed[t.arg] = "announce", !.open_ok = o, !.send_ok = s] :
                   o \in Opens, s \in Sends}
    ELSE IF t.callback = "arp_announce1"
    THEN {[Env0 EXCEPT !.send_ok = s] : s \in Sends}
    ELSE {[Env0 EXCEPT !.announced[t.arg] = b] : b \in {"none", "free"}}

\* a timeout is due: the event loop removes it and calls its callback
Fire(t, Opens, Sends, Jits) ==
    /\ fault = "none"
    /\ log = NoLog
    /\ t \in timeouts
    /\ \E env \in FireEnvs(t, Opens, Sends, Jits) :
          LET m == [Begin(<<"timeout", t.callback, t.arg, t.tv>>)
                       EXCEPT !.timeouts = @ \ {t}]
          IN  Done(CASE t.callback = "arp_probe1" -> arp_probe1(m, t.arg, env)
                     [] t.callback = "arp_probed" -> arp_probed(m, t.arg, env)
                     [] t.callback = "arp_announce1" -> arp_announce1(m, t.arg, env)
                     [] OTHER -> arp_announced(m, t.arg, env))

\* what the conflicted callbacks of the states can do, each one of acts[p]
Conflicteds(acts) ==
    {c \in [Ptrs -> UNION {acts[p] : p \in Ptrs}] : \A p \in Ptrs : c[p] \in acts[p]}

(***************************************************************************)
(* What the undefined accesses of a read can do.  Ubs gives the outcomes:  *)
(* of a read of a freed arp_state (uaf), of a write beyond arm (smash),    *)
(* and what arm holds before it is filled (stack).  An outcome is chosen   *)
(* where it can matter: uaf when a callback frees another arp_state than   *)
(* its own, smash when a frame makes a copy write beyond arm, stack when   *)
(* the frame of the first read leaves bytes of arm.sip and arm.tip         *)
(* unwritten.  For a read after the first whose frame leaves such bytes    *)
(* unwritten, arm.sip and arm.tip are each as the read before left them,   *)
(* or hold one of the fields of Ubs.junk (StackSeqs); no read follows a    *)
(* read that failed.                                                       *)
(***************************************************************************)
NoUaf == {"crash"}

NoSmash == {"crash"}

NoStack == {ZeroStack}

NoJunk == {INADDR_ANY}

Headed(batch) == {i \in 1..Len(batch) : batch[i].ok /\ Len(batch[i].data) >= ARPHDR_LEN}

UafsOf(conflicted, Ubs) ==
    IF \E p \in Ptrs : conflicted[p].do = "free" /\ conflicted[p].on # p
    THEN Ubs.uaf ELSE NoUaf

SmashesOf(batch, Ubs) ==
    IF \E i \in Headed(batch) : arm_end(arphdr(batch[i].data)) > ARM_LEN
    THEN Ubs.smash ELSE NoSmash

StacksOf(batch, Ubs) ==
    IF 1 \in Headed(batch) /\ arphdr(batch[1].data).ar_pln < INADDR_LEN
    THEN Ubs.stack ELSE NoStack

\* a field of arm is as the read before left it
LeftField == [left |-> TRUE, bytes |-> INADDR_ANY]

Left == [sip |-> LeftField, tip |-> LeftField]

FieldChoices(Ubs) == {LeftField} \cup {[left |-> FALSE, bytes |-> f] : f \in Ubs.junk}

StackChoices(item, Ubs) ==
    IF item.ok /\ Len(item.data) >= ARPHDR_LEN /\ arphdr(item.data).ar_pln < INADDR_LEN
    THEN {[sip |-> a, tip |-> b] : a \in FieldChoices(Ubs), b \in FieldChoices(Ubs)}
    ELSE {Left}

RECURSIVE StackSeqs(_, _)
StackSeqs(batch, Ubs) ==
    IF batch = <<>> THEN {<<>>}
    ELSE IF ~Head(batch).ok THEN {[i \in 1..Len(batch) |-> Left]}
    ELSE {<<c>> \o q : c \in StackChoices(Head(batch), Ubs), q \in StackSeqs(Tail(batch), Ubs)}

\* arm before the reads after the first
LaterStacks(batch, Ubs) ==
    IF Head(batch).ok THEN StackSeqs(Tail(batch), Ubs)
    ELSE {[i \in 1..(Len(batch) - 1) |-> Left]}

\* the descriptor of ifp is readable: the event loop calls arp_read(ifp)
Read(ifp, batches, conflicteds, Ubs) ==
    /\ fault = "none"
    /\ log = NoLog
    /\ ifdata[ifp].fd \in events
    /\ \E batch \in batches, conflicted \in conflicteds :
       \E uaf \in UafsOf(conflicted, Ubs), smash \in SmashesOf(batch, Ubs),
          stack \in StacksOf(batch, Ubs),
          stacks \in LaterStacks(batch, Ubs) :
          Done(arp_read(Begin(<<"arp_read", ifp, batch>>), ifp, batch,
                        [Env0 EXCEPT !.conflicted = conflicted, !.uaf = uaf,
                                     !.smash = smash, !.stack = stack,
                                     !.stacks = stacks]))

\* the operation has returned: control is back in the event loop
Idle ==
    /\ log # NoLog
    /\ log' = NoLog
    /\ UNCHANGED <<ifdata, heap, timeouts, events, fds, st, fault, budget>>

-----------------------------------------------------------------------------
(* Spec: the life of the arp_states of two interfaces: every behaviour of  *)
(* up to MaxOps operations from the start                                  *)

Init ==
    /\ ifdata = [i \in IfNames |-> NOSTATE]
    /\ heap = [p \in Ptrs |-> FREED]
    /\ timeouts = {}
    /\ events = {}
    /\ fds = {}
    /\ log = NoLog
    /\ st = [p \in Ptrs |-> NoRun]
    /\ fault = "none"
    /\ budget = MaxOps

\* the frames of Spec: from a foreign sender, about 0.0.0.1
SpecItems == {Got(EtherFrame(ARPOP_REQUEST, ForeignHw, Addr(1), Addr(1))), ReadError}

SpecAddrs == {NOADDR, Addr(0), Addr(1)}

SpecBatches == Batches(SpecItems)

\* in Spec a conflicted callback does nothing, frees its own state or cancels it
SpecConflicteds == Conflicteds([p \in Ptrs |-> SelfActs(p)])

\* what a read of a freed arp_state does (TAILQ_NEXT, run_conflicts)
UafOutcomes == {"crash", "benign", "null", "wild"}

\* what a write beyond arm does (arp_packet)
SmashOutcomes == {"crash", "return", "benign"}

\* what a field of arm holds before it is filled: an address of the model, or bytes
\* that are in no address of the model
JunkFields == Addrs \cup {<<201, 202, 203, 204>>}

StackImages == {StackOf(s, t) : s \in JunkFields, t \in JunkFields}

\* in Spec no read of a freed arp_state and no write beyond arm happens
Crash == [uaf |-> NoUaf, smash |-> NoSmash, stack |-> NoStack, junk |-> NoJunk]

\* every outcome of the undefined accesses
CrashOrNot == [uaf |-> UafOutcomes, smash |-> SmashOutcomes, stack |-> StackImages,
               junk |-> JunkFields]

Next ==
    \/ \E ifp \in IfNames, addr \in SpecAddrs : Budget /\ Create(ifp, addr, BOOLEAN, MaxLive)
    \/ \E p \in Ptrs : SetCallbacks(p, Callbacks)
    \/ \E p \in Ptrs : Budget /\ Probe(p, BOOLEAN, BOOLEAN, Jitters)
    \/ \E p \in Ptrs : Budget /\ Announce(p, BOOLEAN, BOOLEAN)
    \/ \E ifp \in IfNames : Budget /\ Open(ifp, BOOLEAN)
    \/ \E ifp \in IfNames : Budget /\ Close(ifp)
    \/ \E p \in Ptrs : Budget /\ Cancel(p)
    \/ \E p \in Ptrs : Budget /\ Free(p)
    \/ \E p \in Ptrs : Budget /\ FreeBut(p)
    \/ \E ifp \in IfNames : Budget /\ Drop(ifp)
    \/ \E t \in timeouts : Budget /\ Fire(t, BOOLEAN, BOOLEAN, Jitters)
    \/ \E ifp \in IfNames : Budget /\ Read(ifp, SpecBatches, SpecConflicteds, Crash)
    \/ Idle

Spec == Init /\ [][Next]_vars

\* SpecOps: the operations on arp_states only (arp_new, arp_probe, arp_announce,
\* arp_cancel, arp_free, arp_free_but, arp_drop, the read handler, a timeout falling
\* due); the transport is opened and closed by these and never directly
NextOps ==
    \/ \E ifp \in IfNames, addr \in SpecAddrs : Budget /\ Create(ifp, addr, BOOLEAN, MaxLive)
    \/ \E p \in Ptrs : SetCallbacks(p, Callbacks)
    \/ \E p \in Ptrs : Budget /\ Probe(p, BOOLEAN, BOOLEAN, Jitters)
    \/ \E p \in Ptrs : Budget /\ Announce(p, BOOLEAN, BOOLEAN)
    \/ \E p \in Ptrs : Budget /\ Cancel(p)
    \/ \E p \in Ptrs : Budget /\ Free(p)
    \/ \E p \in Ptrs : Budget /\ FreeBut(p)
    \/ \E ifp \in IfNames : Budget /\ Drop(ifp)
    \/ \E t \in timeouts : Budget /\ Fire(t, BOOLEAN, BOOLEAN, Jitters)
    \/ \E ifp \in IfNames : Budget /\ Read(ifp, SpecBatches, SpecConflicteds, Crash)
    \/ Idle

SpecOps == Init /\ [][NextOps]_vars

-----------------------------------------------------------------------------
(* SpecTimer: the probe and announce runs of an arp_state of eth0 *)

TimerAddrs == {Addr(1), Addr(2)}

NextTimer ==
    \/ \E addr \in TimerAddrs : Create("eth0", addr, {TRUE}, MaxTimed)
    \/ \E p \in Ptrs, cbs \in {Callbacks, {"conflicted"}} : SetCallbacks(p, cbs)
    \/ \E p \in Ptrs : Probe(p, BOOLEAN, BOOLEAN, Jitters)
    \/ \E p \in Ptrs : Announce(p, BOOLEAN, BOOLEAN)
    \/ Open("eth0", BOOLEAN)
    \/ Close("eth0")
    \/ \E p \in Ptrs : Cancel(p)
    \/ \E p \in Ptrs : Free(p)
    \/ \E t \in timeouts : Fire(t, BOOLEAN, BOOLEAN, Jitters)
    \/ Idle

SpecTimer == Init /\ [][NextTimer]_vars

-----------------------------------------------------------------------------
(* SpecDispatch: one frame read on eth0, whose descriptor is open, with    *)
(* 1..MaxSess arp_states in its list.  The initial states are those that   *)
(* arp_new, the owner's setting of callbacks, arp_probe and arp_cancel     *)
(* leave (up to the numbering of the heap's slots): the addresses other    *)
(* than 0.0.0.0 differ, since arp_new finds an address that is listed.     *)

DispatchCbs == {Callbacks, {"probed", "announced"}}

Collections ==
    {c \in UNION {[1..n -> Addrs \X DispatchCbs] : n \in 1..MaxSess} :
        \A i, j \in DOMAIN c : i # j /\ c[i][1] = c[j][1] => c[i][1] = INADDR_ANY}

InitDispatch ==
    \E c \in Collections :
        /\ ifdata = [i \in IfNames |->
                        IF i = "eth0"
                        THEN [alloc |-> TRUE, fd |-> Interface(i).bpf_fd,
                              arp_states |-> [k \in DOMAIN c |-> k]]
                        ELSE NOSTATE]
        /\ heap = [p \in Ptrs |->
                      IF p \in DOMAIN c
                      THEN [live |-> TRUE, iface |-> "eth0", addr |-> c[p][1],
                            probes |-> 0, claims |-> 0, cbs |-> c[p][2], next |-> NULL]
                      ELSE FREED]
        /\ timeouts = {}
        /\ events = {Interface("eth0").bpf_fd}
        /\ fds = {Interface("eth0").bpf_fd}
        /\ log = NoLog
        /\ st = [p \in Ptrs |-> NoRun]
        /\ fault = "none"
        /\ budget = 0

\* a conflicted callback does nothing, frees its own state or frees another one
DispatchActs(p) == {[do |-> "none", on |-> p]} \cup {[do |-> "free", on |-> q] : q \in Ptrs}

\* well-formed frames from a foreign sender, from eth0 and from eth1, about every
\* pair of addresses, and frames whose protocol length is not 4
DispatchFrames ==
    {EtherFrame(ARPOP_REQUEST, sha, sip, tip) :
        sha \in {ForeignHw, Interface("eth0").hwaddr, Interface("eth1").hwaddr},
        sip \in Addrs, tip \in Addrs}
    \cup {EtherFrame(ARPOP_REPLY, sha, sip, tip) :
             sha \in {ForeignHw, Interface("eth1").hwaddr}, sip \in Addrs, tip \in Addrs}
    \cup {MkFrame(6, 3, ARPOP_REQUEST, ForeignHw, <<0, 0, 0>>, Zeros(6), <<0, 0, 0>>, ARP_LEN),
          MkFrame(6, 5, ARPOP_REQUEST, ForeignHw, Addr(1) \o <<7>>, Zeros(6),
                  Addr(2) \o <<7>>, ARP_LEN)}

DispatchBatches == {<<Got(f)>> : f \in DispatchFrames}

DispatchConflicteds == Conflicteds([p \in Ptrs |-> DispatchActs(p)])

NextDispatch ==
    \/ Read("eth0", DispatchBatches, DispatchConflicteds, CrashOrNot)
    \/ Idle

SpecDispatch == InitDispatch /\ [][NextDispatch]_vars

-----------------------------------------------------------------------------
(* SpecDecode: one frame of any length and any header lengths read on eth0, *)
(* which has one arp_state for 0.0.0.1                                      *)

InitDecode ==
    /\ ifdata = [i \in IfNames |->
                    IF i = "eth0"
                    THEN [alloc |-> TRUE, fd |-> Interface(i).bpf_fd, arp_states |-> <<1>>]
                    ELSE NOSTATE]
    /\ heap = [p \in Ptrs |->
                  IF p = 1
                  THEN [live |-> TRUE, iface |-> "eth0", addr |-> Addr(1),
                        probes |-> 0, claims |-> 0, cbs |-> Callbacks, next |-> NULL]
                  ELSE FREED]
    /\ timeouts = {}
    /\ events = {Interface("eth0").bpf_fd}
    /\ fds = {Interface("eth0").bpf_fd}
    /\ log = NoLog
    /\ st = [p \in Ptrs |-> NoRun]
    /\ fault = "none"
    /\ budget = 0

HdrLens == 0..MaxHdrLen \cup {255}

\* n bytes that start as the address a does
AddrBytes(a, n) == [i \in 1..n |-> IF i <= INADDR_LEN THEN Addr(a)[i] ELSE 7]

\* n bytes of a foreign hardware address
HwBytes(n) == [i \in 1..n |-> 9]

\* the frames with these header lengths, from a foreign sender and from eth0, cut
\* to (or short of) every length a read into buf[ARP_LEN] can return
DecodeFrames ==
    {MkFrame(hln, pln, ARPOP_REQUEST, HwBytes(hln), AddrBytes(1, pln), Zeros(hln),
             AddrBytes(2, pln), len) :
        hln \in HdrLens, pln \in HdrLens, len \in 0..ARP_LEN}
    \cup {MkFrame(Interface("eth0").hwlen, pln, ARPOP_REQUEST, Interface("eth0").hwaddr,
                  AddrBytes(1, pln), Zeros(Interface("eth0").hwlen), AddrBytes(2, pln), len) :
             pln \in HdrLens, len \in 0..ARP_LEN}

DecodeBatches == {<<Got(f)>> : f \in DecodeFrames}

DecodeConflicteds == Conflicteds([p \in Ptrs |-> NoActs(p)])

NextDecode ==
    \/ Read("eth0", DecodeBatches, DecodeConflicteds, CrashOrNot)
    \/ Idle

SpecDecode == InitDecode /\ [][NextDecode]_vars

-----------------------------------------------------------------------------
(* SpecBatch: one readiness notification on eth0, whose descriptor is open, *)
(* with 1..MaxLive arp_states for different addresses in its list: up to    *)
(* MaxReads reads, each returning a frame about 0.0.0.1, a frame about      *)
(* 0.0.0.2, a frame without protocol addresses or an error, with conflicted *)
(* callbacks that free arp_states                                           *)

\* the lists of SpecBatch: every arp_state has all its callbacks
BatchCollections ==
    {c \in Collections :
        /\ Len(c) <= MaxLive
        /\ \A i \in DOMAIN c : c[i][1] # INADDR_ANY /\ c[i][2] = Callbacks}

InitBatch ==
    \E c \in BatchCollections :
        /\ ifdata = [i \in IfNames |->
                        IF i = "eth0"
                        THEN [alloc |-> TRUE, fd |-> Interface(i).bpf_fd,
                              arp_states |-> [k \in DOMAIN c |-> k]]
                        ELSE NOSTATE]
        /\ heap = [p \in Ptrs |->
                      IF p \in DOMAIN c
                      THEN [live |-> TRUE, iface |-> "eth0", addr |-> c[p][1],
                            probes |-> 0, claims |-> 0, cbs |-> c[p][2], next |-> NULL]
                      ELSE FREED]
        /\ timeouts = {}
        /\ events = {Interface("eth0").bpf_fd}
        /\ fds = {Interface("eth0").bpf_fd}
        /\ log = NoLog
        /\ st = [p \in Ptrs |-> NoRun]
        /\ fault = "none"
        /\ budget = 0

\* what a read returns: a request about 0.0.0.1, a reply about 0.0.0.2, a frame
\* without protocol addresses (ar_pln = 0), or -1
BatchItems ==
    {Got(EtherFrame(ARPOP_REQUEST, ForeignHw, Addr(1), Addr(1))),
     Got(EtherFrame(ARPOP_REPLY, ForeignHw, Addr(2), Addr(2))),
     Got(MkFrame(6, 0, ARPOP_REQUEST, ForeignHw, <<>>, Zeros(6), <<>>, ARP_LEN)),
     ReadError}

ReadBatches == SeqsUpTo(BatchItems, MaxReads) \ {<<>>}

\* the conflicted callback of a listed arp_state does nothing or frees a listed
\* arp_state
BatchActs(p) ==
    IF p <= MaxLive
    THEN {[do |-> "none", on |-> p]} \cup {[do |-> "free", on |-> q] : q \in 1..MaxLive}
    ELSE NoActs(p)

ReadConflicteds == Conflicteds([p \in Ptrs |-> BatchActs(p)])

\* what a field of arm holds before it is filled, in SpecBatch: every address of the
\* model (0.0.0.0 is no listed arp_state's address there)
BatchJunk == Addrs

BatchStacks == {StackOf(s, t) : s \in BatchJunk, t \in BatchJunk}

\* the outcomes of the undefined accesses in SpecBatch (no frame writes beyond arm)
BatchUbs == [uaf |-> UafOutcomes, smash |-> NoSmash, stack |-> BatchStacks,
             junk |-> BatchJunk]

NextBatch ==
    \/ Read("eth0", ReadBatches, ReadConflicteds, BatchUbs)
    \/ Idle

SpecBatch == InitBatch /\ [][NextBatch]_vars

-----------------------------------------------------------------------------
(* SpecFreeBut: one operation on eth0 with 1..MaxSess arp_states in its     *)
(* list, each of them idle or at some point of a probe or announce run.    *)
(* The initial states are what the functions of arp.c leave when they are   *)
(* called from the start: for each arp_state in turn arp_new, the owner's   *)
(* setting of the callbacks, and the calls of its phase.                    *)

\* no iarp_state, no arp_state
Machine0 ==
    [ifdata |-> [i \in IfNames |-> NOSTATE], heap |-> [p \in Ptrs |-> FREED],
     timeouts |-> {}, events |-> {}, fds |-> {}, log |-> NoLog,
     st |-> [p \in Ptrs |-> NoRun], fault |-> "none"]

\* the timeout of astate for callback falls due: the event loop removes it and calls
\* the callback
Due(m, callback, astate, env) ==
    LET t == CHOOSE t \in m.timeouts : t.callback = callback /\ t.arg = astate
        m1 == [m EXCEPT !.timeouts = @ \ {t}]
    IN  CASE callback = "arp_probe1" -> arp_probe1(m1, astate, env)
          [] callback = "arp_probed" -> arp_probed(m1, astate, env)
          [] callback = "arp_announce1" -> arp_announce1(m1, astate, env)
          [] OTHER -> arp_announced(m1, astate, env)

\* the calls that bring an arp_state to a point of its runs: idle; one probe sent;
\* the probes sent and arp_probed pending; one announce sent; the announces sent and
\* arp_announced pending; probed, its probed_cb having called arp_announce; an
\* announce run and a probe run started one after the other
Phases ==
    {<<>>,
     <<"arp_probe">>,
     <<"arp_probe", "arp_probe1", "arp_probe1">>,
     <<"arp_announce">>,
     <<"arp_announce", "arp_announce1">>,
     <<"arp_probe", "arp_probe1", "arp_probe1", "arp_probed">>,
     <<"arp_announce", "arp_probe">>}

Call(m, astate, f) ==
    CASE f = "arp_probe" -> arp_probe(m, astate, Env0)
      [] f = "arp_announce" -> arp_announce(m, astate, Env0)
      [] f = "arp_probed" -> Due(m, f, astate, [Env0 EXCEPT !.probed[astate] = "announce"])
      [] OTHER -> Due(m, f, astate, Env0)

RECURSIVE Calls(_, _, _)
Calls(m, astate, phase) ==
    IF phase = <<>> THEN m
    ELSE Calls(Call(m, astate, Head(phase)), astate, Tail(phase))

\* arp_new for the k-th address of the model, the callbacks set, and the calls of the
\* phase, for each phase in turn
RECURSIVE Built(_, _, _)
Built(m, phases, k) ==
    IF k > Len(phases) THEN m
    ELSE LET m1 == arp_new(m, "eth0", Addr(k - 1), Env0)
             astate == m1.log.ret
         IN  Built(Calls([m1 EXCEPT !.heap[astate].cbs = Callbacks], astate, phases[k]),
                   phases, k + 1)

PhaseLists == UNION {[1..n -> Phases] : n \in 1..MaxSess}

InitFreeBut ==
    \E phases \in PhaseLists :
        LET m == Built(Machine0, phases, 1)
        IN  /\ ifdata = m.ifdata
            /\ heap = m.heap
            /\ timeouts = m.timeouts
            /\ events = m.events
            /\ fds = m.fds
            /\ log = NoLog
            /\ st = m.st
            /\ fault = m.fault
            /\ budget = 1

SpecFreeBut == InitFreeBut /\ [][Next]_vars

-----------------------------------------------------------------------------
(* Properties of arp_new *)

\* the positions of the arp_states for addr in a list
SessionsFor(ifd, hp, ifp, addr) ==
    {i \in 1..Len(ifd[ifp].arp_states) : hp[ifd[ifp].arp_states[i]].addr = addr}

CreateEnvs == {[Env0 EXCEPT !.malloc_ok = a, !.calloc_ok = b] : a \in BOOLEAN, b \in BOOLEAN}

\* the second of two calls in a row of arp_new(ifp, addr), made in the state the
\* first one left: it returns what the first returned and changes nothing
SecondCreateSame(ifp, addr) ==
    \A env \in CreateEnvs : arp_new(M', ifp, addr, env) = M'

(***************************************************************************)
(* What holds of two calls in a row: for every interface and every         *)
(* non-null address in any reachable state, when arp_new(ifp, addr)        *)
(* returns an arp_state, a second call in a row returns the same arp_state *)
(* and changes nothing; the list of the interface then holds exactly one   *)
(* arp_state for the address, unless the address is 0.0.0.0 and the list   *)
(* already held several arp_states for it (arp_new with a null address     *)
(* makes a new 0.0.0.0 arp_state each time and looks none up), which stay  *)
(* as they are; from an empty interface the list has one element after     *)
(* both calls.                                                             *)
(***************************************************************************)
C1_CreateTwice ==
    [][\A ifp \in IfNames, addr \in Addrs :
          (log'.op[1] = "arp_new" /\ log'.op = <<"arp_new", ifp, addr>> /\ log'.ret # NULL) =>
              /\ SecondCreateSame(ifp, addr)
              /\ LET n == Cardinality(SessionsFor(ifdata, heap, ifp, addr))
                     n2 == Cardinality(SessionsFor(ifdata', heap', ifp, addr))
                 IN  n2 = 1 \/ (addr = INADDR_ANY /\ n >= 2 /\ n2 = n)
              /\ ifdata[ifp].arp_states = <<>> => Len(ifdata'[ifp].arp_states) = 1]_vars

\* arp_new returned the arp_state an earlier call had made for the address, in a
\* list that holds another arp_state as well
C1_CreatedTwice ==
    /\ log.op = <<"arp_new", "eth0", Addr(1)>>
    /\ log.ret # NULL
    /\ log.evs = <<>>
    /\ Len(ifdata["eth0"].arp_states) = 2

\* C1's case: arp_new(eth0, &0.0.0.0) has returned an arp_state, the one a second
\* call returns as well, and the list of eth0 holds two arp_states for 0.0.0.0
C1_TwoForOneAddress ==
    /\ log.op = <<"arp_new", "eth0", INADDR_ANY>>
    /\ log.ret # NULL
    /\ \A env \in CreateEnvs : arp_new(M, "eth0", INADDR_ANY, env).log.ret = log.ret
    /\ Cardinality(SessionsFor(ifdata, heap, "eth0", INADDR_ANY)) = 2

(***************************************************************************)
(* C1: for every interface and every non-null address in any reachable     *)
(* state, two calls in a row of arp_new(ifp, addr) return the same         *)
(* arp_state, and the list of the interface holds exactly one arp_state    *)
(* for that address afterwards.                                            *)
(***************************************************************************)
C1_CreateTwiceOne ==
    [][\A ifp \in IfNames, addr \in Addrs :
          (log'.op[1] = "arp_new" /\ log'.op = <<"arp_new", ifp, addr>> /\ log'.ret # NULL) =>
              /\ SecondCreateSame(ifp, addr)
              /\ Cardinality(SessionsFor(ifdata', heap', ifp, addr)) = 1]_vars

-----------------------------------------------------------------------------
(* Properties of arp_free *)

\* the event e is among evs
LoggedIn(evs, e) == \E i \in 1..Len(evs) : evs[i] = e

\* the operation has left the event e
Logged(e) == LoggedIn(log.evs, e)

(***************************************************************************)
(* C8: arp_free of the last arp_state of an interface closes the transport *)
(* (the descriptor is taken from the event loop, closed, and the state's   *)
(* fd is -1) and removes the interface's iarp_state; arp_free while other  *)
(* arp_states remain leaves the iarp_state with the remaining arp_states   *)
(* in their order, installs the filter for their addresses, and leaves the *)
(* descriptor as it was (open if it was open, closed if it was closed).    *)
(* The other interfaces are not touched.                                   *)
(***************************************************************************)
C8_Free ==
    [][\A p \in Ptrs :
          (log'.op[1] = "arp_free" /\ log'.op = <<"arp_free", p>>) =>
              LET ifp == heap[p].iface
                  state == ifdata[ifp]
                  rest == TAILQ_REMOVE(state.arp_states, p)
              IN  /\ \A i \in IfNames \ {ifp} : ifdata'[i] = ifdata[i]
                  /\ IF rest = <<>>
                     THEN /\ ifdata'[ifp] = NOSTATE
                          /\ events' = events \ {state.fd}
                          /\ fds' = fds \ {state.fd}
                     ELSE /\ ifdata'[ifp] = [state EXCEPT !.arp_states = rest]
                          /\ events' = events
                          /\ fds' = fds
                          /\ LoggedIn(log'.evs,
                                      [ev |-> "bpf_arp", ifp |-> ifp, fd |-> state.fd,
                                       addrs |-> {heap[rest[i]].addr : i \in 1..Len(rest)}])
      ]_vars

\* C8's case: arp_free of the last arp_state of eth0 has closed its open descriptor
\* while eth1 keeps its arp_state
C8_FreedLast ==
    /\ log.op[1] = "arp_free"
    /\ Logged([ev |-> "bpf_close", fd |-> Interface("eth0").bpf_fd])
    /\ ifdata["eth0"] = NOSTATE
    /\ ifdata["eth1"] # NOSTATE

-----------------------------------------------------------------------------
(* Properties of arp_packet *)

\* the events of a kind among evs, by position
EvsIn(evs, kind) == {i \in 1..Len(evs) : evs[i].ev = kind}

\* the events of a kind that the operation has left, by position
Evs(kind) == EvsIn(log.evs, kind)

\* the calls of conflicted callbacks that the frame of the packet event i led to
CbsOf(i) ==
    {j \in Evs("conflicted_cb") : j > i /\ \A k \in Evs("packet") : ~(i < k /\ k < j)}

\* the arp_states whose conflicted callback was called, in the order of the calls
CbSeqIn(evs) ==
    LET calls == SelectSeq(evs, LAMBDA e : e.ev = "conflicted_cb")
    IN  [k \in 1..Len(calls) |-> calls[k].p]

\* the frame d is whole and its sender hardware address is that of a local interface
SelfOriginated(d) ==
    /\ Len(d) >= ARPHDR_LEN
    /\ 8 + 2 * (d[5] + d[6]) <= Len(d)
    /\ \E n \in IfNames :
          /\ d[5] = Interface(n).hwlen
          /\ SubSeq(d, ARPHDR_LEN + 1, ARPHDR_LEN + d[5]) = Interface(n).hwaddr

(***************************************************************************)
(* C4: for every frame length and every pair of hardware and protocol      *)
(* lengths in the header, arp_packet returns without calling a conflicted  *)
(* callback when the length is below 8 or 8 + 2 * (ar_hln + ar_pln) is     *)
(* more than the length, and it reads no byte of the frame at or beyond    *)
(* its length; an 8 byte frame whose ar_hln is 255 is among the rejected.  *)
(***************************************************************************)
C4_DecodeBounds ==
    \A i \in Evs("packet") :
        LET e == log.evs[i]
            len == Len(e.data)
        IN  /\ e.rd <= len
            /\ (len < 8 \/ 8 + 2 * (e.data[5] + e.data[6]) > len) =>
                   /\ e.verdict \in {"short", "truncated"}
                   /\ Evs("conflicted_cb") = {}
                   /\ fault = "none"

\* C4's case: an 8 byte frame whose ar_hln is 255 has been rejected
C4_Forged255 ==
    \E i \in Evs("packet") :
        /\ Len(log.evs[i].data) = 8
        /\ log.evs[i].data[5] = 255
        /\ log.evs[i].verdict = "truncated"
        /\ Evs("conflicted_cb") = {}

(***************************************************************************)
(* C5: a frame whose sender hardware address is that of any local          *)
(* interface, the receiving one or another, leads to no call of a          *)
(* conflicted callback, whatever its sender and target addresses and its   *)
(* opcode are and whatever arp_states there are.                           *)
(***************************************************************************)
C5_SelfIgnored ==
    \A i \in Evs("packet") :
        SelfOriginated(log.evs[i].data) =>
            /\ log.evs[i].verdict = "self"
            /\ CbsOf(i) = {}

\* C5's case: a reply sent from eth1's hardware address, about the address of an
\* arp_state of eth0 that has a conflicted callback, was read on eth0
C5_FromOtherInterface ==
    \E i \in Evs("packet") :
        /\ log.op[2] = "eth0"
        /\ log.evs[i].data = EtherFrame(ARPOP_REPLY, Interface("eth1").hwaddr, Addr(1), Addr(1))
        /\ \E p \in Ptrs : /\ heap[p].live
                           /\ heap[p].addr = Addr(1)
                           /\ "conflicted" \in heap[p].cbs
        /\ CbsOf(i) = {}

(***************************************************************************)
(* C6 (as the code has it): a message that is not from a local interface   *)
(* and whose sender address is A leads to a call of the conflicted         *)
(* callback of an arp_state for another address B only when its target     *)
(* address is B: the callbacks called are those of the arp_states for the  *)
(* sender address and for the target address.                              *)
(***************************************************************************)
C6_SenderOrTarget ==
    \A i \in Evs("packet") :
        log.evs[i].verdict = "accept" =>
            \A j \in CbsOf(i) :
                log.evs[j].addr # log.evs[i].sip => log.evs[j].addr = log.evs[i].tip

\* C6's case: a message with sender address 0.0.0.1 and target address 0.0.0.2 has
\* led to the conflicted callbacks of the arp_states for both
C6_BothCalled ==
    \E i \in Evs("packet") :
        /\ log.evs[i].verdict = "accept"
        /\ log.evs[i].sip = Addr(1)
        /\ log.evs[i].tip = Addr(2)
        /\ {log.evs[j].addr : j \in CbsOf(i)} = {Addr(1), Addr(2)}

(***************************************************************************)
(* C6 as claimed: a message that is not from a local interface and whose   *)
(* sender address is A leads to calls of the conflicted callback of the    *)
(* arp_states for A only, whatever its target address and its opcode are.  *)
(***************************************************************************)
C6_SenderOnly ==
    \A i \in Evs("packet") :
        log.evs[i].verdict = "accept" =>
            \A j \in CbsOf(i) : log.evs[j].addr = log.evs[i].sip

\* the arp_states of list that a message about sip and tip is for and that have a
\* conflicted callback, in the order of the list
Matching(hp, list, sip, tip) ==
    SelectSeq(list, LAMBDA q : /\ (hp[q].addr = sip \/ hp[q].addr = tip)
                               /\ "conflicted" \in hp[q].cbs)

(***************************************************************************)
(* C7: for every accepted message and every list of arp_states of the      *)
(* receiving interface, none freed during the dispatch, the conflicted     *)
(* callback is called exactly once for each arp_state whose address is the *)
(* sender or the target address of the message and for no other one, in    *)
(* the order of the list, whatever the opcode; an arp_state for the        *)
(* address that has no conflicted callback is passed over.                 *)
(***************************************************************************)
C7_Dispatch ==
    \A i \in Evs("packet") :
        (log.evs[i].verdict = "accept" /\ Evs("arp_free") = {} /\ Len(log.op[3]) = 1) =>
            /\ CbSeqIn(log.evs) =
                   Matching(heap, log.evs[i].list, log.evs[i].sip, log.evs[i].tip)
            /\ fault = "none"

\* C7's case: of three arp_states for the addresses of a reply, the second has no
\* conflicted callback: the callbacks of the first and the third were called
C7_SecondSkipped ==
    \E i \in Evs("packet") :
        /\ log.evs[i].verdict = "accept"
        /\ SubSeq(log.evs[i].data, 7, 8) = ARPOP_REPLY
        /\ log.evs[i].sip # log.evs[i].tip
        /\ log.evs[i].list = <<1, 2, 3>>
        /\ \A p \in 1..3 : heap[p].live /\ heap[p].addr \in {log.evs[i].sip, log.evs[i].tip}
        /\ "conflicted" \notin heap[2].cbs
        /\ CbSeqIn(log.evs) = <<1, 3>>

\* every arp_free among evs was called by the conflicted callback of the arp_state
\* that it frees
SelfFreesOnly(evs) ==
    \A i \in EvsIn(evs, "arp_free") :
        i > 1 /\ evs[i - 1].ev = "conflicted_cb" /\ evs[i - 1].p = evs[i].p

(***************************************************************************)
(* C9: when conflicted callbacks free their own arp_state during the       *)
(* dispatch of an accepted message, the conflicted callback of every       *)
(* arp_state for the sender or the target address is still called exactly  *)
(* once, in the order of the list, a freed arp_state is not read again     *)
(* (the process does not die), and the list is left with the others in     *)
(* order, wherever the freed ones were; when all are freed (the only one,  *)
(* or the last one left), the iarp_state is gone.                          *)
(***************************************************************************)
C9_SelfFree ==
    [][\A ifp \in IfNames :
          (/\ log'.op[1] = "arp_read"
           /\ log'.op[2] = ifp
           /\ Len(log'.op[3]) = 1
           /\ EvsIn(log'.evs, "arp_free") # {}
           /\ SelfFreesOnly(log'.evs)
           /\ \E i \in EvsIn(log'.evs, "packet") : log'.evs[i].verdict = "accept") =>
              LET e == log'.evs[CHOOSE i \in EvsIn(log'.evs, "packet") : TRUE]
                  freed == {log'.evs[i].p : i \in EvsIn(log'.evs, "arp_free")}
                  rest == SelectSeq(ifdata[ifp].arp_states, LAMBDA q : q \notin freed)
              IN  /\ CbSeqIn(log'.evs) = Matching(heap, ifdata[ifp].arp_states, e.sip, e.tip)
                  /\ Cardinality(EvsIn(log'.evs, "arp_free")) = Cardinality(freed)
                  /\ EvsIn(log'.evs, "uaf") = {}
                  /\ fault' = "none"
                  /\ \A q \in freed : ~heap'[q].live
                  /\ ifdata'[ifp] = IF rest = <<>> THEN NOSTATE
                                    ELSE [ifdata[ifp] EXCEPT !.arp_states = rest]
      ]_vars

\* C9's case: of three arp_states for the addresses of a message, the second one's
\* callback has freed it; the callbacks of all three were called, in order
C9_MiddleFreed ==
    /\ log.op[1] = "arp_read"
    /\ CbSeqIn(log.evs) = <<1, 2, 3>>
    /\ {log.evs[i].p : i \in Evs("arp_free")} = {2}
    /\ SelfFreesOnly(log.evs)
    /\ ifdata["eth0"].arp_states = <<1, 3>>

-----------------------------------------------------------------------------
(* Properties of the probe and announce runs *)

ProbeTimers == {"arp_probe1", "arp_probed"}

AnnounceTimers == {"arp_announce1", "arp_announced"}

\* the sender and target addresses of the frame that the event after position i,
\* a send, carries
SentAfter(i) ==
    IF i < Len(log.evs) /\ log.evs[i + 1].ev = "send"
    THEN LET frame == log.evs[i + 1].frame
             arm == arp_msg(frame, arphdr(frame), ZeroStack)
         IN  [sent |-> TRUE, sip |-> arm.sip, tip |-> arm.tip]
    ELSE [sent |-> FALSE, sip |-> INADDR_ANY, tip |-> INADDR_ANY]

\* the probe run of p so far: 1..PROBE_NUM sends, then probed_cb once; the timeout
\* that takes the run to its next step is pending
ProbeRun(p) ==
    /\ st[p].psends \in 1..PROBE_NUM
    /\ st[p].pfired <= 1
    /\ st[p].pfired = 1 => st[p].psends = PROBE_NUM
    /\ (st[p].psends < PROBE_NUM /\ st[p].pfired = 0) => Pending(M, p, {"arp_probe1"})
    /\ (st[p].psends = PROBE_NUM /\ st[p].pfired = 0) => Pending(M, p, {"arp_probed"})

\* no timeout of p is pending but the one that takes its probe run to its next step
ProbeRunTimers(p) ==
    /\ st[p].psends < PROBE_NUM => ~Pending(M, p, {"arp_probed"})
    /\ st[p].psends = PROBE_NUM => ~Pending(M, p, {"arp_probe1"})
    /\ st[p].pfired = 1 => ~Pending(M, p, ProbeTimers)

\* every probe sent has sender address 0.0.0.0 and the state's address as target
ProbeSends ==
    \A i \in Evs("arp_probe1") :
        SentAfter(i) = [sent |-> TRUE, sip |-> INADDR_ANY, tip |-> log.evs[i].addr]

\* arp_probe, once the transport is open, sends the first probe itself
ProbeFirst ==
    (log.op[1] = "arp_probe" /\ log.ret # NOFD) =>
        /\ Cardinality(Evs("arp_probe1")) = 1
        /\ st[log.op[2]].psends = 1

(***************************************************************************)
(* C2: after arp_probe has opened the transport, and while the arp_state   *)
(* is not cancelled, freed or probed again, exactly PROBE_NUM probes are   *)
(* sent, the first by arp_probe itself, each with sender address 0.0.0.0   *)
(* and the state's address as target; none is sent after the PROBE_NUM-th, *)
(* and probed_cb is then called exactly once, after the last probe (the    *)
(* timeout that takes the run to its next step is pending until then).     *)
(***************************************************************************)
C2_ProbeRun ==
    fault = "none" =>
        /\ \A p \in Ptrs :
              (heap[p].live /\ st[p].probing # "no" /\ "probed" \in heap[p].cbs) =>
                  ProbeRun(p)
        /\ ProbeSends
        /\ ProbeFirst

\* C2's case in the code: probed_cb has been called in a run that has sent fewer
\* than PROBE_NUM probes (arp_probe had found the arp_probed timeout of the run
\* before pending, and left it)
C2_ProbedEarly ==
    \E p \in Ptrs :
        /\ heap[p].live
        /\ "probed" \in heap[p].cbs
        /\ st[p].probing = "dirty"
        /\ st[p].pfired = 1
        /\ st[p].psends < PROBE_NUM

\* C2 for the runs that arp_probe starts with no timeout of a run before pending
C2_ProbeRunFromIdle ==
    fault = "none" =>
        /\ \A p \in Ptrs :
              (heap[p].live /\ st[p].probing = "clean" /\ "probed" \in heap[p].cbs) =>
                  ProbeRun(p) /\ ProbeRunTimers(p)
        /\ ProbeSends
        /\ ProbeFirst

\* a probe run started from idle has called probed_cb after PROBE_NUM probes
C2_ProbedFromIdle ==
    \E p \in Ptrs :
        /\ heap[p].live
        /\ st[p].probing = "clean"
        /\ st[p].pfired = 1
        /\ st[p].psends = PROBE_NUM
        /\ log.op[1] = "timeout"

\* the announce run of p so far: 1..ANNOUNCE_NUM sends, then announced_cb once; the
\* timeout that takes the run to its next step is pending
AnnounceRun(p) ==
    /\ st[p].asends \in 1..ANNOUNCE_NUM
    /\ st[p].afired <= 1
    /\ st[p].afired = 1 => st[p].asends = ANNOUNCE_NUM
    /\ (st[p].asends < ANNOUNCE_NUM /\ st[p].afired = 0) => Pending(M, p, {"arp_announce1"})
    /\ (st[p].asends = ANNOUNCE_NUM /\ st[p].afired = 0) => Pending(M, p, {"arp_announced"})

\* no timeout of p is pending but the one that takes its announce run to its next step
AnnounceRunTimers(p) ==
    /\ st[p].asends < ANNOUNCE_NUM => ~Pending(M, p, {"arp_announced"})
    /\ st[p].asends = ANNOUNCE_NUM => ~Pending(M, p, {"arp_announce1"})
    /\ st[p].afired = 1 => ~Pending(M, p, AnnounceTimers)

\* every announcement sent has the state's address as sender and as target
AnnounceSends ==
    \A i \in Evs("arp_announce1") :
        SentAfter(i) = [sent |-> TRUE, sip |-> log.evs[i].addr, tip |-> log.evs[i].addr]

\* arp_announce, once the transport is open, sends the first announcement itself;
\* the later ones and announced_cb come ANNOUNCE_WAIT seconds after the one before
AnnounceFirst ==
    /\ (log.op[1] = "arp_announce" /\ log.ret # NOFD) =>
           /\ Cardinality(Evs("arp_announce1")) = 1
           /\ st[log.op[2]].asends = 1
    /\ \A t \in timeouts :
           t.callback \in AnnounceTimers => t.tv = [sec |-> ANNOUNCE_WAIT, nsec |-> 0]

(***************************************************************************)
(* C3: after arp_announce has opened the transport, and while the          *)
(* arp_state is not cancelled, freed or announced again, exactly           *)
(* ANNOUNCE_NUM announcements are sent, ANNOUNCE_WAIT apart and the first  *)
(* by arp_announce itself, each with the state's address as sender and as  *)
(* target, and announced_cb is called exactly once, after the second       *)
(* announcement and never before it.                                       *)
(***************************************************************************)
C3_AnnounceRun ==
    fault = "none" =>
        /\ \A p \in Ptrs :
              (heap[p].live /\ st[p].announcing # "no" /\ "announced" \in heap[p].cbs) =>
                  AnnounceRun(p)
        /\ AnnounceSends
        /\ AnnounceFirst

\* C3's case in the code: announced_cb has been called in a run that has sent fewer
\* than ANNOUNCE_NUM announcements (arp_announce had found the arp_announced
\* timeout of the run before pending, and left it)
C3_AnnouncedEarly ==
    \E p \in Ptrs :
        /\ heap[p].live
        /\ "announced" \in heap[p].cbs
        /\ st[p].announcing = "dirty"
        /\ st[p].afired = 1
        /\ st[p].asends < ANNOUNCE_NUM

\* C3 for the runs that arp_announce starts with no timeout of a run before pending
C3_AnnounceRunFromIdle ==
    fault = "none" =>
        /\ \A p \in Ptrs :
              (heap[p].live /\ st[p].announcing = "clean" /\ "announced" \in heap[p].cbs) =>
                  AnnounceRun(p) /\ AnnounceRunTimers(p)
        /\ AnnounceSends
        /\ AnnounceFirst

\* an announce run started from idle has called announced_cb after ANNOUNCE_NUM
\* announcements
C3_AnnouncedFromIdle ==
    \E p \in Ptrs :
        /\ heap[p].live
        /\ st[p].announcing = "clean"
        /\ st[p].afired = 1
        /\ st[p].asends = ANNOUNCE_NUM
        /\ log.op[1] = "timeout"

(***************************************************************************)
(* C10: when arp_cancel or arp_free of an arp_state returns, no timeout of *)
(* that arp_state is pending, due or not; a timeout only ever calls        *)
(* arp_probe1 or arp_probed for an allocated arp_state that has been       *)
(* probed since it was last cancelled, and arp_announce1 or arp_announced  *)
(* for one that has been announced since; arp_cancel leaves the arp_state  *)
(* in its list and the iarp_state, the descriptor and the arp_state as     *)
(* they were.                                                              *)
(***************************************************************************)
C10_Cancelled ==
    [][/\ \A p \in Ptrs :
             (log'.op[1] \in {"arp_cancel", "arp_free"} /\ log'.op[2] = p) =>
                 \A t \in timeouts' : t.arg # p
       /\ \A p \in Ptrs :
             (log'.op[1] = "arp_cancel" /\ log'.op[2] = p) =>
                 /\ ifdata' = ifdata
                 /\ heap' = heap
                 /\ events' = events
                 /\ fds' = fds
                 /\ \E i \in 1..Len(ifdata'[heap[p].iface].arp_states) :
                        ifdata'[heap[p].iface].arp_states[i] = p
       /\ log'.op[1] = "timeout" =>
             /\ heap[log'.op[3]].live
             /\ log'.op[2] \in ProbeTimers => st[log'.op[3]].probing # "no"
             /\ log'.op[2] \in AnnounceTimers => st[log'.op[3]].announcing # "no"
       /\ \A t \in timeouts' :
             /\ heap'[t.arg].live
             /\ t.callback \in ProbeTimers => st'[t.arg].probing # "no"
             /\ t.callback \in AnnounceTimers => st'[t.arg].announcing # "no"
      ]_vars

\* C10's case: arp_cancel has returned for an arp_state whose probe run had sent two
\* probes (its arp_probe1 timeout was pending); no timeout is left
C10_CancelledMidRun ==
    \E p \in Ptrs :
        /\ log.op = <<"arp_cancel", p>>
        /\ heap[p].live
        /\ heap[p].probes = 2
        /\ timeouts = {}

-----------------------------------------------------------------------------
(* Properties of the transport descriptor *)

\* the transport descriptor of the interface is open
Opened(ifp) == Interface(ifp).bpf_fd \in fds

\* an interface's descriptor is open only if the interface has arp_states
OnlyWithSessions == \A ifp \in IfNames : Opened(ifp) => ifdata[ifp].arp_states # <<>>

\* an open descriptor is the fd of the interface's iarp_state and is watched by the
\* event loop, a closed one is neither
OpenAgrees ==
    \A ifp \in IfNames :
        /\ Opened(ifp) <=> ifdata[ifp].fd = Interface(ifp).bpf_fd
        /\ Opened(ifp) <=> Interface(ifp).bpf_fd \in events
        /\ ifdata[ifp].fd \in {NOFD, Interface(ifp).bpf_fd}

\* the operation just run is a direct call of arp_open for an interface that had
\* no arp_state
OpenedWithNone ==
    \E ifp \in IfNames : log'.op = <<"arp_open", ifp>> /\ ifdata[ifp].arp_states = <<>>

(***************************************************************************)
(* C11 (as the code has it): in every state reached from the start by the  *)
(* operations arp_new, arp_probe, arp_announce, arp_cancel, arp_free,      *)
(* arp_free_but, arp_drop, the read handler and a timeout falling due, the *)
(* transport descriptor of an interface is open only if the interface has  *)
(* arp_states.                                                             *)
(***************************************************************************)
C11_OpenOnlyWithSessions == OnlyWithSessions

(***************************************************************************)
(* With arp_open and arp_close called directly as well: no descriptor is   *)
(* open at the start, and every step that starts where the open            *)
(* descriptors are of interfaces with arp_states ends where they are,      *)
(* unless it is an arp_open for an interface that has no arp_state.        *)
(***************************************************************************)
C11_StepsKeepOnlyWithSessions ==
    /\ OnlyWithSessions
    /\ [][(OnlyWithSessions /\ ~OpenedWithNone) => OnlyWithSessions']_vars

(***************************************************************************)
(* In every state an open descriptor is the fd of the interface's          *)
(* iarp_state and is watched by the event loop, and a closed one is        *)
(* neither.                                                                *)
(***************************************************************************)
C11_OpenAgrees == OpenAgrees

\* a direct arp_open on the empty iarp_state that a failed arp_new left has opened
\* the descriptor of eth0, which has no arp_state
C11_OpenedEmpty ==
    /\ log.op = <<"arp_open", "eth0">>
    /\ Opened("eth0")
    /\ ifdata["eth0"].arp_states = <<>>

\* C11's case: the descriptors of both interfaces were open; arp_free of the last
\* arp_state of eth1 has closed that of eth1, and that of eth0, which has its
\* arp_states, is still open
C11_OpenWithSessionsOnly ==
    /\ log.op[1] = "arp_free"
    /\ Logged([ev |-> "bpf_close", fd |-> Interface("eth1").bpf_fd])
    /\ ifdata["eth1"] = NOSTATE
    /\ ~Opened("eth1")
    /\ ifdata["eth0"].arp_states # <<>>
    /\ Opened("eth0")

\* a failed read has closed the descriptor of eth0, which keeps its arp_states
C11_ClosedWithSessions ==
    /\ log.op[1] = "arp_read"
    /\ Logged([ev |-> "bpf_close", fd |-> Interface("eth0").bpf_fd])
    /\ ifdata["eth0"].arp_states # <<>>
    /\ ~Opened("eth0")

(***************************************************************************)
(* C11 as claimed: in every state between operations, the transport        *)
(* descriptor of an interface is open if and only if the interface has     *)
(* arp_states.                                                             *)
(***************************************************************************)
C11_OpenIffSessions ==
    log = NoLog => \A ifp \in IfNames : Opened(ifp) <=> ifdata[ifp].arp_states # <<>>

-----------------------------------------------------------------------------
(* Properties of a failed arp_new *)

(***************************************************************************)
(* C12: when arp_new(ifp, addr) fails (it returns NULL: the malloc of the  *)
(* iarp_state or the calloc of the arp_state failed), the interface has an *)
(* iarp_state afterwards only if it had one before, and its list of        *)
(* arp_states is as before; the arp_states themselves, the timeouts and    *)
(* the descriptors are untouched.                                          *)
(***************************************************************************)
C12_NoPartialState ==
    [][\A ifp \in IfNames :
          (log'.op[1] = "arp_new" /\ log'.op[2] = ifp /\ log'.ret = NULL) =>
              /\ ifdata'[ifp].alloc => ifdata[ifp].alloc
              /\ ifdata'[ifp].arp_states = ifdata[ifp].arp_states
              /\ \A i \in IfNames \ {ifp} : ifdata'[i] = ifdata[i]
              /\ heap' = heap
              /\ timeouts' = timeouts
              /\ events' = events
              /\ fds' = fds]_vars

\* C12's case in the code: the first arp_new of eth0 has failed at the calloc of the
\* arp_state, and the iarp_state that it had allocated before stays, its list empty
C12_EmptyContextLeft ==
    /\ log.op[1] = "arp_new"
    /\ log.op[2] = "eth0"
    /\ log.ret = NULL
    /\ ifdata["eth0"].alloc
    /\ ifdata["eth0"].arp_states = <<>>

\* C12 but for the iarp_state: a failed arp_new leaves every list of arp_states, the
\* arp_states, the timeouts and the descriptors as they were
C12_SessionsKept ==
    [][\A ifp \in IfNames :
          (log'.op[1] = "arp_new" /\ log'.op[2] = ifp /\ log'.ret = NULL) =>
              /\ \A i \in IfNames : ifdata'[i].arp_states = ifdata[i].arp_states
              /\ \A i \in IfNames : ifdata'[i].fd = ifdata[i].fd
              /\ heap' = heap
              /\ timeouts' = timeouts
              /\ events' = events
              /\ fds' = fds]_vars

-----------------------------------------------------------------------------
(* Properties of arp_drop and arp_free_but *)

\* the events of a kind among evs that are about the arp_state p, by position
EvsOf(evs, kind, p) == {i \in EvsIn(evs, kind) : evs[i].p = p}

\* the step has freed the arp_state p: arp_free was called for it once, its free_cb
\* (when it has one) once, and it is allocated no more and has no timeout
FreedOnce(p) ==
    /\ Cardinality(EvsOf(log'.evs, "arp_free", p)) = 1
    /\ Cardinality(EvsOf(log'.evs, "free_cb", p)) = IF "free" \in heap[p].cbs THEN 1 ELSE 0
    /\ ~heap'[p].live
    /\ \A t \in timeouts' : t.arg # p

\* what arp_drop(ifp) is to leave
Dropped(ifp) ==
    /\ \A i \in 1..Len(ifdata[ifp].arp_states) : FreedOnce(ifdata[ifp].arp_states[i])
    /\ ifdata'[ifp] = NOSTATE
    /\ Interface(ifp).bpf_fd \notin fds'
    /\ Interface(ifp).bpf_fd \notin events'
    /\ \A i \in IfNames \ {ifp} : ifdata'[i] = ifdata[i]
    /\ \A p \in Ptrs : heap[p].live /\ heap[p].iface # ifp => heap'[p] = heap[p]
    /\ {t \in timeouts' : heap[t.arg].iface # ifp} = {t \in timeouts : heap[t.arg].iface # ifp}
    /\ fault' = "none"

(***************************************************************************)
(* C13: after arp_drop(ifp), from any reachable state of the interface,    *)
(* every arp_state that was in its list has been freed, its free_cb called *)
(* exactly once and its timeouts deleted; the interface has no iarp_state  *)
(* and no arp_states, and its descriptor is closed and out of the event    *)
(* loop; the other interfaces are as they were.                            *)
(***************************************************************************)
C13_Drop ==
    [][\A ifp \in IfNames :
          (log'.op[1] = "arp_drop" /\ log'.op[2] = ifp) => Dropped(ifp)]_vars

\* C13's case in the code: arp_drop has returned for eth0, whose iarp_state had an
\* empty list (a failed arp_new had left it); the iarp_state is still there
C13_ContextLeft ==
    /\ log.op = <<"arp_drop", "eth0">>
    /\ ifdata["eth0"].alloc
    /\ ifdata["eth0"].arp_states = <<>>

\* C13 for an interface that has arp_states, or has no iarp_state
C13_DropOfSessions ==
    [][\A ifp \in IfNames :
          (/\ log'.op[1] = "arp_drop"
           /\ log'.op[2] = ifp
           /\ (ifdata[ifp].arp_states # <<>> \/ ~ifdata[ifp].alloc)) => Dropped(ifp)]_vars

\* arp_drop has freed the two arp_states of eth0, one of them probing, and closed
\* its open descriptor
C13_DroppedTwo ==
    /\ log.op = <<"arp_drop", "eth0">>
    /\ Cardinality(Evs("arp_free")) = 2
    /\ Cardinality(Evs("free_cb")) >= 1
    /\ Logged([ev |-> "bpf_close", fd |-> Interface("eth0").bpf_fd])
    /\ ifdata["eth0"] = NOSTATE

-----------------------------------------------------------------------------
(* Properties of the dispatch when callbacks free arp_states *)

\* the element after q in list, or NULL
After(list, q) ==
    IF \E i \in 1..Len(list) - 1 : list[i] = q
    THEN list[(CHOOSE i \in 1..Len(list) - 1 : list[i] = q) + 1]
    ELSE NULL

\* the list of the interface as the event k of evs happens: list0 without the
\* arp_states freed before
ListAt(evs, list0, k) ==
    SelectSeq(list0, LAMBDA q : \A j \in EvsIn(evs, "arp_free") : j < k => evs[j].p # q)

\* some conflicted callback among evs has freed the arp_state that followed its own
\* in the list
FreesSuccessor(evs, list0) ==
    \E k \in EvsIn(evs, "arp_free") :
        /\ k > 1
        /\ evs[k - 1].ev = "conflicted_cb"
        /\ evs[k].p = After(ListAt(evs, list0, k), evs[k - 1].p)

\* the dispatch of the one accepted message of the step went well: no freed
\* arp_state was read or had its callback called, no callback was called twice,
\* and the callback of every arp_state that is still listed, is for the message
\* and has a conflicted callback was called
DispatchedSafely(ifp) ==
    LET evs == log'.evs
        e == evs[CHOOSE i \in EvsIn(evs, "packet") : TRUE]
        left == ifdata'[ifp].arp_states
    IN  /\ fault' = "none"
        /\ EvsIn(evs, "uaf") = {}
        /\ \A j \in EvsIn(evs, "conflicted_cb") : evs[j].live
        /\ \A q \in Ptrs : Cardinality(EvsOf(evs, "conflicted_cb", q)) <= 1
        /\ \A i \in 1..Len(left) :
              (/\ heap[left[i]].addr \in {e.sip, e.tip}
               /\ "conflicted" \in heap[left[i]].cbs) =>
                  Cardinality(EvsOf(evs, "conflicted_cb", left[i])) = 1

\* arp_read(ifp) has read one frame, arp_packet has accepted it, and a conflicted
\* callback has freed an arp_state
ReadWithFree(ifp) ==
    /\ log'.op[1] = "arp_read"
    /\ log'.op[2] = ifp
    /\ Len(log'.op[3]) = 1
    /\ EvsIn(log'.evs, "arp_free") # {}
    /\ \E i \in EvsIn(log'.evs, "packet") : log'.evs[i].verdict = "accept"

(***************************************************************************)
(* C14: the dispatch of one message tolerates conflicted callbacks that    *)
(* free an arp_state other than their own, a not yet visited one and the   *)
(* one that follows theirs in the list included: the freed arp_state is    *)
(* not read and its callback is not called afterwards, and the conflicted  *)
(* callback of every arp_state for the message that is still listed is     *)
(* called exactly once.                                                    *)
(***************************************************************************)
C14_FreeOther ==
    [][\A ifp \in IfNames : ReadWithFree(ifp) => DispatchedSafely(ifp)]_vars

\* C14's case in the code: the callback of the first arp_state has freed the second,
\* the one that followed it in the list; the loop has read the freed arp_state, has
\* called its callback, and the process has died as the loop went on from it
C14_SuccessorRead ==
    /\ log.op[1] = "arp_read"
    /\ fault = "use_after_free"
    /\ \E k \in Evs("arp_free") :
          /\ k > 1
          /\ log.evs[k - 1].ev = "conflicted_cb"
          /\ log.evs[k - 1].p = 1
          /\ log.evs[k].p = 2
          /\ \E u \in Evs("uaf"), c \in Evs("conflicted_cb") :
                /\ u > k
                /\ log.evs[u].p = 2
                /\ c > u
                /\ log.evs[c].p = 2
                /\ ~log.evs[c].live

\* C14 for the callbacks that free any arp_state but the one that follows theirs
C14_FreeButSuccessor ==
    [][\A ifp \in IfNames :
          (ReadWithFree(ifp) /\ ~FreesSuccessor(log'.evs, ifdata[ifp].arp_states)) =>
              DispatchedSafely(ifp)]_vars

\* the callback of the first of three arp_states has freed the third, not yet
\* visited; the callback of the second was called, that of the third was not
C14_ThirdFreedByFirst ==
    /\ log.op[1] = "arp_read"
    /\ fault = "none"
    /\ \E k \in Evs("arp_free") :
          /\ k > 1
          /\ log.evs[k - 1].ev = "conflicted_cb"
          /\ log.evs[k - 1].p = 1
          /\ log.evs[k].p = 3
    /\ CbSeqIn(log.evs) = <<1, 2>>
    /\ ifdata["eth0"].arp_states = <<1, 2>>

-----------------------------------------------------------------------------
(* Properties of the sends of a run *)

\* the machine state m, but for whether its sends went through
Blind(m) ==
    [m EXCEPT !.log.evs = [i \in 1..Len(@) |->
                              IF @[i].ev = "send" THEN [@[i] EXCEPT !.ok = TRUE] ELSE @[i]]]

\* what the callback of the timeout t leaves when it falls due now
Expire(t, env) ==
    LET m == [Begin(<<"timeout", t.callback, t.arg, t.tv>>) EXCEPT !.timeouts = @ \ {t}]
    IN  CASE t.callback = "arp_probe1" -> arp_probe1(m, t.arg, env)
          [] t.callback = "arp_probed" -> arp_probed(m, t.arg, env)
          [] t.callback = "arp_announce1" -> arp_announce1(m, t.arg, env)
          [] OTHER -> arp_announced(m, t.arg, env)

\* the environments in which the transport opens or not and the jitter is any, the
\* send going through
SendEnvs == {[Env0 EXCEPT !.open_ok = o, !.jitter = j] : o \in BOOLEAN, j \in Jitters}

Failing(env) == [env EXCEPT !.send_ok = FALSE]

(***************************************************************************)
(* C15: a send that fails changes nothing of a probe or announce run: in   *)
(* every reachable state, arp_probe, arp_announce and every timeout that   *)
(* is pending leave, when the send fails, the state they leave when it     *)
(* goes through (the counters, the timeouts with their times, the calls of *)
(* probed_cb and announced_cb, and the send attempted with its frame), so  *)
(* that the number of sends, the timeouts and the one call of the callback *)
(* are the same for every pattern of failures; in the step just taken a    *)
(* send was attempted wherever arp_probe1 or arp_announce1 ran.            *)
(***************************************************************************)
C15_SendFailureSame ==
    /\ \A p \in Live, env \in SendEnvs :
          /\ Blind(arp_probe(Begin(<<"arp_probe", p>>), p, Failing(env)))
                 = Blind(arp_probe(Begin(<<"arp_probe", p>>), p, env))
          /\ Blind(arp_announce(Begin(<<"arp_announce", p>>), p, Failing(env)))
                 = Blind(arp_announce(Begin(<<"arp_announce", p>>), p, env))
    /\ \A t \in timeouts : \A env \in FireEnvs(t, BOOLEAN, {TRUE}, Jitters) :
          Blind(Expire(t, Failing(env))) = Blind(Expire(t, env))
    /\ \A i \in Evs("arp_probe1") \cup Evs("arp_announce1") : SentAfter(i).sent

\* C15's case: the third probe of a run has failed to be sent, and the arp_probed
\* timeout is pending all the same
C15_ThirdProbeFailed ==
    \E p \in Ptrs :
        /\ log.op[1] = "timeout"
        /\ log.op[2] = "arp_probe1"
        /\ log.op[3] = p
        /\ \E i \in Evs("send") : ~log.evs[i].ok
        /\ st[p].probing = "clean"
        /\ st[p].psends = PROBE_NUM
        /\ \E t \in timeouts : /\ t.arg = p
                               /\ t.callback = "arp_probed"
                               /\ t.tv = [sec |-> ANNOUNCE_WAIT, nsec |-> 0]

-----------------------------------------------------------------------------
(* Properties of arp_read *)

\* the n-th smallest element of a set of numbers
Nth(S, n) == CHOOSE x \in S : Cardinality({y \in S : y <= x}) = n

\* the first failing read of a batch, or 0
FirstError(batch) ==
    IF \E k \in 1..Len(batch) : ~batch[k].ok
    THEN CHOOSE k \in 1..Len(batch) : ~batch[k].ok /\ \A j \in 1..(k - 1) : batch[j].ok
    ELSE 0

(***************************************************************************)
(* C16: when a read of arp_read fails, the descriptor of the interface is  *)
(* closed and taken from the event loop (the arp_states stay), and nothing *)
(* more of that notification is read or dispatched: no read, no frame and  *)
(* no conflicted callback comes after the failing read; the frames read    *)
(* before it were handed to arp_packet one by one in the order the reads   *)
(* returned them, while the interface kept its iarp_state and descriptor.  *)
(***************************************************************************)
C16_ReadError ==
    [][\A ifp \in IfNames :
          (log'.op[1] = "arp_read" /\ log'.op[2] = ifp /\ fault' = "none") =>
              LET batch == log'.op[3]
                  evs == log'.evs
                  reads == EvsIn(evs, "bpf_read")
                  packets == EvsIn(evs, "packet")
                  n == Cardinality(reads)
                  k == FirstError(batch)
                  fd == Interface(ifp).bpf_fd
              IN  /\ n \in 1..Len(batch)
                  /\ k # 0 => n <= k
                  /\ Cardinality(packets) = IF n = k THEN n - 1 ELSE n
                  /\ \A j \in 1..Cardinality(packets) :
                        /\ evs[Nth(packets, j)].data = batch[j].data
                        /\ Nth(packets, j) = Nth(reads, j) + 1
                  /\ \A j \in 1..n : evs[Nth(reads, j)].fd = fd /\ evs[Nth(reads, j)].open
                  /\ n < Len(batch) /\ n # k =>
                        ifdata'[ifp] = NOSTATE \/ ifdata'[ifp].fd = NOFD
                  /\ n = k =>
                        /\ evs[Len(evs)] = [ev |-> "bpf_close", fd |-> fd]
                        /\ Nth(reads, k) = Len(evs) - 1
                        /\ fd \notin fds'
                        /\ fd \notin events'
                        /\ ifdata'[ifp].alloc
                        /\ ifdata'[ifp].fd = NOFD
                        /\ ifdata'[ifp].arp_states # <<>>
      ]_vars

\* C16's case: the first two reads returned the frame about 0.0.0.2 and then the one
\* about 0.0.0.1, whose callbacks were called in that order, and the third read
\* failed: the descriptor is closed and the arp_states stay
C16_ErrorAfterTwo ==
    /\ log.op[1] = "arp_read"
    /\ Len(log.op[3]) = MaxReads
    /\ FirstError(log.op[3]) = 3
    /\ \E i, j \in Evs("conflicted_cb") :
          /\ i < j
          /\ log.evs[i].sip = Addr(2)
          /\ log.evs[j].sip = Addr(1)
    /\ Logged([ev |-> "bpf_close", fd |-> Interface("eth0").bpf_fd])
    /\ Len(ifdata["eth0"].arp_states) = 2
    /\ ifdata["eth0"].fd = NOFD

-----------------------------------------------------------------------------
(* Properties of an announced arp_state *)

\* no probe run of p is under way
ProbeDone(p) == st[p].probing = "no" \/ (st[p].probing = "clean" /\ st[p].pfired = 1)

\* announced_cb has been called for p since its owner last announced it, and p has
\* not been freed or cancelled since
Announced(p) ==
    /\ heap[p].live
    /\ st[p].announcing # "no"
    /\ st[p].afired >= 1
    /\ ProbeDone(p)

\* p is in the list of its interface
Listed(p) ==
    \E i \in 1..Len(ifdata[heap[p].iface].arp_states) :
        ifdata[heap[p].iface].arp_states[i] = p

\* a frame from a foreign sender with these sender and target addresses, read now on
\* the interface of p, leads to one call of the conflicted callback of p
Dispatches(p, sip, tip) ==
    LET ifp == heap[p].iface
        batch == <<Got(EtherFrame(ARPOP_REPLY, ForeignHw, sip, tip))>>
        m == arp_read(Begin(<<"arp_read", ifp, batch>>), ifp, batch, Env0)
    IN  Cardinality(EvsOf(m.log.evs, "conflicted_cb", p)) = 1

\* p is monitoring: listed, with no timeout pending, its conflicted callback called
\* for the messages from or about its address that are read
Monitoring(p) ==
    /\ Listed(p)
    /\ \A t \in timeouts : t.arg # p
    /\ ("conflicted" \in heap[p].cbs /\ ifdata[heap[p].iface].fd \in events) =>
           /\ Dispatches(p, heap[p].addr, INADDR_ANY)
           /\ Dispatches(p, INADDR_ANY, heap[p].addr)

(***************************************************************************)
(* C17: once announced_cb has been called for an arp_state (and has not    *)
(* freed it), and until its owner frees it, cancels it or starts a run     *)
(* again, the arp_state is monitoring: it stays in the list of its         *)
(* interface, has no timeout pending, so that no timeout of it fires and   *)
(* nothing more is sent for it, and every message read from then on whose  *)
(* sender or target address is its address is handed to its conflicted     *)
(* callback.                                                               *)
(***************************************************************************)
C17_Monitoring ==
    [][/\ \A p \in Ptrs : Announced(p)' => Monitoring(p)'
       /\ \A p \in Ptrs : Announced(p) => ~(log'.op[1] = "timeout" /\ log'.op[3] = p)
      ]_vars

\* C17's case in the code: announced_cb has been called in a run that arp_announce
\* had started while the arp_announced timeout of the run before was pending; the
\* arp_announce1 timeout of the run is still pending
C17_AnnouncedWithTimer ==
    \E p \in Ptrs :
        /\ Announced(p)
        /\ st[p].probing = "no"
        /\ st[p].asends < ANNOUNCE_NUM
        /\ Pending(M, p, {"arp_announce1"})

\* announced_cb has been called once for p, at the end of a run that arp_announce
\* had started with no announce timeout of p pending
AnnouncedFromIdle(p) ==
    /\ Announced(p)
    /\ st[p].announcing = "clean"
    /\ st[p].afired = 1

\* C17 for the runs that arp_announce starts with no announce timeout pending
C17_MonitoringFromIdle ==
    [][/\ \A p \in Ptrs : AnnouncedFromIdle(p)' => Monitoring(p)'
       /\ \A p \in Ptrs :
             AnnouncedFromIdle(p) => ~(log'.op[1] = "timeout" /\ log'.op[3] = p)
      ]_vars

\* an arp_state probed and then announced by its probed_cb is monitoring, its
\* descriptor open, and has a conflicted callback
C17_MonitoringAfterProbe ==
    \E p \in Ptrs :
        /\ AnnouncedFromIdle(p)
        /\ st[p].probing = "clean"
        /\ log = NoLog
        /\ "conflicted" \in heap[p].cbs
        /\ ifdata[heap[p].iface].fd \in events
        /\ Monitoring(p)


(***************************************************************************)
(* C18: arp_free_but(keep) frees every arp_state of keep's interface but   *)
(* keep (arp_free once for each, its free_cb once, its timeouts deleted)   *)
(* and leaves keep as it was: the list holds keep alone, the iarp_state is *)
(* still there with its fd, keep's probes, claims, callbacks and pending   *)
(* timeouts are untouched, and the descriptor is open if it was open and   *)
(* closed if it was closed; the other interfaces are as they were.         *)
(***************************************************************************)
C18_FreeBut ==
    [][\A keep \in Ptrs :
          (log'.op[1] = "arp_free_but" /\ log'.op[2] = keep) =>
              LET ifp == heap[keep].iface
                  others == {q \in Ptrs : heap[q].live /\ heap[q].iface = ifp /\ q # keep}
              IN  /\ \A q \in others : FreedOnce(q)
                  /\ {log'.evs[i].p : i \in EvsIn(log'.evs, "arp_free")} = others
                  /\ ifdata'[ifp] = [ifdata[ifp] EXCEPT !.arp_states = <<keep>>]
                  /\ ifdata'[ifp].alloc
                  /\ heap'[keep] = heap[keep]
                  /\ st'[keep] = st[keep]
                  /\ timeouts' = {t \in timeouts : t.arg \notin others}
                  /\ fds' = fds
                  /\ events' = events
                  /\ \A i \in IfNames \ {ifp} : ifdata'[i] = ifdata[i]
                  /\ \A q \in Ptrs : heap[q].iface # ifp => heap'[q] = heap[q]
                  /\ fault' = "none"
      ]_vars

\* C18's case: arp_free_but has freed the arp_state that followed keep in the list of
\* eth0, and keep's probe run goes on, the descriptor of eth0 open
C18_KeptProbing ==
    \E keep \in Ptrs :
        /\ log.op = <<"arp_free_but", keep>>
        /\ Cardinality(Evs("arp_free")) = 1
        /\ Cardinality(Evs("free_cb")) = 1
        /\ \A i \in Evs("arp_free") : log.evs[i].p > keep
        /\ ifdata["eth0"].arp_states = <<keep>>
        /\ heap[keep].probes = 1
        /\ Pending(M, keep, {"arp_probe1"})
        /\ Opened("eth0")

\* C18's case: arp_free_but has freed the two arp_states around keep in the list of
\* eth0; keep has sent its probes and the first announce of the run its probed_cb
\* started, and the timeout of that run is still pending, the descriptor open
C18_KeptOfThree ==
    \E keep \in Ptrs :
        /\ log.op = <<"arp_free_but", keep>>
        /\ Cardinality(Evs("arp_free")) = 2
        /\ Cardinality(Evs("free_cb")) = 2
        /\ \E i, j \in Evs("arp_free") : log.evs[i].p < keep /\ keep < log.evs[j].p
        /\ ifdata["eth0"].arp_states = <<keep>>
        /\ heap[keep].probes = PROBE_NUM
        /\ heap[keep].claims = 1
        /\ st[keep].pfired = 1
        /\ Pending(M, keep, {"arp_announce1"})
        /\ Opened("eth0")

\* C18 for the arp_states of the current state, whichever is kept: what arp_free_but
\* leaves behind when it is called now
FreeButNow(keep) ==
    LET m == arp_free_but(Begin(<<"arp_free_but", keep>>), keep, Env0)
        ifp == heap[keep].iface
        others == {q \in Ptrs : heap[q].live /\ heap[q].iface = ifp /\ q # keep}
    IN  /\ m.fault = "none"
        /\ m.ifdata[ifp] = [ifdata[ifp] EXCEPT !.arp_states = <<keep>>]
        /\ m.heap[keep] = heap[keep]
        /\ \A q \in others : /\ ~m.heap[q].live
                             /\ Cardinality(EvsOf(m.log.evs, "arp_free", q)) = 1
        /\ Cardinality(EvsIn(m.log.evs, "arp_free")) = Cardinality(others)
        /\ m.fds = fds
        /\ m.events = events

C18_FreeButNow ==
    fault = "none" => \A keep \in Ptrs : heap[keep].live => FreeButNow(keep)


(***************************************************************************)
(* C19: in one call of arp_read, once the dispatch of a frame has left the *)
(* interface without its iarp_state or with its descriptor closed (a       *)
(* conflicted callback has freed the last arp_state), nothing more is read *)
(* and no more frame is dispatched; every read is from the descriptor of   *)
(* the interface's iarp_state, open at that moment, whatever the batch is  *)
(* and whatever the callbacks free; arp_read stops short of the end of the *)
(* batch only then, or at a failed read.                                   *)
(***************************************************************************)
C19_NoReadAfterClose ==
    [][\A ifp \in IfNames :
          (log'.op[1] = "arp_read" /\ log'.op[2] = ifp) =>
              LET batch == log'.op[3]
                  evs == log'.evs
                  reads == EvsIn(evs, "bpf_read")
                  n == Cardinality(reads)
              IN  /\ \A r \in reads :
                        /\ evs[r].fd = Interface(ifp).bpf_fd
                        /\ evs[r].open
                  /\ \A c \in EvsIn(evs, "bpf_close") :
                        \A r \in reads \cup EvsIn(evs, "packet") : r < c
                  /\ fault' = "none" =>
                        /\ (ifdata'[ifp] = NOSTATE \/ ifdata'[ifp].fd = NOFD) <=>
                               EvsIn(evs, "bpf_close") # {}
                        /\ n \in 1..Len(batch)
                        /\ n < Len(batch) => EvsIn(evs, "bpf_close") # {}
      ]_vars

\* C19's case: of a batch of three frames, the callback of the first frame freed one
\* of two arp_states and that of the second frame the other, the last one: the third
\* frame was not read
C19_StoppedAfterLastFree ==
    /\ log.op[1] = "arp_read"
    /\ Len(log.op[3]) = MaxReads
    /\ FirstError(log.op[3]) = 0
    /\ Cardinality(Evs("bpf_read")) = 2
    /\ Cardinality(Evs("arp_free")) = 2
    /\ \E i \in Evs("arp_free"), r \in Evs("bpf_read") : i < r
    /\ ifdata["eth0"] = NOSTATE
    /\ fault = "none"

-----------------------------------------------------------------------------
(* Properties of the copies of arp_packet *)

\* the frames of the operation that arp_packet has decoded and handed to the loop
\* over the arp_states, by position of their packet event
Dispatched == {i \in Evs("packet") : log.evs[i].verdict \in {"accept", "overflow"}}

(***************************************************************************)
(* C20: every frame that arp_packet decodes and hands to the loop over the *)
(* arp_states has ar_pln = 4 and ar_hln no more than the size of the       *)
(* hardware address fields of struct arp_msg, so that the four fields are  *)
(* written whole from the frame and no memcpy writes beyond its field;     *)
(* arp_packet itself returns on the frames with other header lengths.      *)
(***************************************************************************)
C20_LengthsChecked ==
    /\ fault # "stack_smash"
    /\ \A i \in Dispatched :
          /\ log.evs[i].data[6] = INADDR_LEN
          /\ log.evs[i].data[5] <= HWADDR_LEN
          /\ log.evs[i].verdict = "accept"

\* C20's case in the code: a whole frame with ar_hln = 6 and ar_pln = 5 from a
\* foreign sender was not rejected: the memcpy's of lines 161 and 163 wrote 5
\* bytes into the 4 of an s_addr
C20_ProtocolLength5 ==
    \E i \in Evs("packet") :
        /\ Len(log.evs[i].data) = ARPHDR_LEN + 2 * (6 + 5)
        /\ log.evs[i].data[5] = 6
        /\ log.evs[i].data[6] = 5
        /\ log.evs[i].verdict = "overflow"
        /\ fault = "stack_smash"

\* the frames with ar_pln = 4 and ar_hln <= HWADDR_LEN that arp_packet does not
\* reject are handed on with the sender and target addresses of the frame
C20_WellFormedCopied ==
    \A i \in Evs("packet") :
        LET e == log.evs[i]
            hln == e.data[5]
        IN  (/\ e.verdict \notin {"short", "truncated", "self"}
             /\ e.data[6] = INADDR_LEN
             /\ hln <= HWADDR_LEN) =>
                /\ e.verdict = "accept"
                /\ fault = "none"
                /\ e.sip = SubSeq(e.data, ARPHDR_LEN + hln + 1, ARPHDR_LEN + hln + 4)
                /\ e.tip = SubSeq(e.data, ARPHDR_LEN + 2 * hln + 5, ARPHDR_LEN + 2 * hln + 8)

\* a whole frame with ar_pln = 3 was handed on, its sender address one byte short
C20_ProtocolLength3 ==
    \E i \in Evs("packet") :
        /\ Len(log.evs[i].data) = ARPHDR_LEN + 2 * (6 + 3)
        /\ log.evs[i].data[5] = 6
        /\ log.evs[i].data[6] = 3
        /\ log.evs[i].verdict = "accept"

=============================================================================
